---- MODULE Spec2Model ----
(***************************************************************************)
(* Ingestion pipeline of pt-apis: the cron scheduler (core/scheduler.ts),  *)
(* the storage primitives handed to handlers (core/storage.ts), the        *)
(* sources seed (adapters/seed.ts) and the seed middleware (index.ts).     *)
(*                                                                         *)
(* Time is counted in minutes since the Unix epoch (scheduledTime / 60000).*)
(***************************************************************************)
EXTENDS Integers, Sequences, FiniteSets, TLC

VARIABLES
    apiData,      \* table api_data: a set of rows
    ingestLog,    \* table ingest_log: rows by autoincrement id 1..Len
    sources,      \* table sources: source id -> row, for the ids that have one
    jobs,         \* runAdapter invocations, in dispatch order
    now,          \* wall clock read by new Date()
    seeded,       \* index.ts: let seeded = false
    seedPos,      \* positions of the seedSources calls of the isolate
    srIn,         \* arguments of a shouldRun call
    srOut,        \* its result
    clock,        \* the external cron scheduler's time
    pending,      \* cron identifiers that fire at `clock` and are not yet delivered
    fired,        \* frequency -> number of dispatches at `clock`
    lastFired,    \* frequency -> time of the last dispatch before `clock`, or Never
    call,         \* one storage-layer database write and the attempts made for it
    eq,           \* one item list written by storeBatchApiData and by storeApiData calls
    locations,    \* table locations: a set of rows
    locCalls,     \* registerLocation calls: issued, and applied in order
    r2,           \* R2 bucket DOCUMENTS: the keys that hold an object
    documents,    \* table documents: a set of rows
    uploads,      \* uploadDocument calls, in call order
    rerun,        \* a handler run that may be killed and is then run again
    reg,          \* the adapter registry and the register calls made on it
    kv,           \* KV namespace CACHE and the requests that went through kvCache
    web,          \* HTTP requests passing the seed middleware
    sync          \* runs of the tempo source's location sync

vars == <<apiData, ingestLog, sources, jobs, now, seeded, seedPos,
          srIn, srOut, clock, pending, fired, lastFired,
          call, eq, locations, locCalls, r2, documents, uploads, rerun,
          reg, kv, web, sync>>

pipeVars == <<apiData, ingestLog, sources, jobs, now, seeded, seedPos>>
srVars == <<srIn, srOut>>
clockVars == <<clock, pending, fired, lastFired>>
storeVars == <<call, eq, locations, locCalls, r2, documents, uploads, rerun>>
locVars == <<locations, locCalls>>
docVars == <<r2, documents, uploads>>
appVars == <<reg, kv, web, sync>>

----------------------------------------------------------------------------
(* Bounds of the model *)

MaxJobs == 2          \* runAdapter invocations over a behaviour
MaxStores == 2        \* storage calls over a behaviour
MaxRunStores == 1     \* storage calls beside deliveries of several triggers, or seeds
MaxWeeks == 2         \* weeks the cron clock runs

Never == -1            \* a timestamp column that is NULL
NoLocation == "NULL"   \* location_id NULL / options.locationId undefined
Undefined == "undefined"   \* an optional property left out
Null == "NULL"             \* SQL NULL

----------------------------------------------------------------------------
(* core/adapter.ts: CronFrequency *)

CronFrequency ==
    {"every_minute", "every_5_minutes", "every_15_minutes",
     "hourly", "every_6_hours", "daily", "weekly"}

\* A frequency string outside the union (reaches the switch's default).
OtherFrequencies == {"monthly"}

MinuteCron == "* * * * *"
HourCron == "0 * * * *"
DayCron == "0 0 * * *"
CronTriggers == {MinuteCron, HourCron, DayCron}

\* Cron identifier strings that are none of the three configured triggers.
OtherCrons == {"*/5 * * * *", "0 0 * * 0"}

\* shouldRun with the every_15_minutes case testing minute % 5.
shouldRunWrongModulo(frequency, cron, minute, hour, dayOfWeek) ==
    CASE frequency = "every_minute" -> cron = "* * * * *"
      [] frequency = "every_5_minutes" -> cron = "* * * * *" /\ minute % 5 = 0
      [] frequency = "every_15_minutes" -> cron = "* * * * *" /\ minute % 5 = 0
      [] frequency = "hourly" -> cron = "0 * * * *"
      [] frequency = "every_6_hours" -> cron = "0 * * * *" /\ hour % 6 = 0
      [] frequency = "daily" -> cron = "0 0 * * *"
      [] frequency = "weekly" -> cron = "0 0 * * *" /\ dayOfWeek = 0
      [] OTHER -> FALSE

\* shouldRun with the every_5_minutes case not testing the cron identifier.
shouldRunAnyCron(frequency, cron, minute, hour, dayOfWeek) ==
    CASE frequency = "every_minute" -> cron = "* * * * *"
      [] frequency = "every_5_minutes" -> minute % 5 = 0
      [] frequency = "every_15_minutes" -> cron = "* * * * *" /\ minute % 15 = 0
      [] frequency = "hourly" -> cron = "0 * * * *"
      [] frequency = "every_6_hours" -> cron = "0 * * * *" /\ hour % 6 = 0
      [] frequency = "daily" -> cron = "0 0 * * *"
      [] frequency = "weekly" -> cron = "0 0 * * *" /\ dayOfWeek = 0
      [] OTHER -> FALSE

\* shouldRun with the weekly case taking Sunday as day 7.
shouldRunSundaySeven(frequency, cron, minute, hour, dayOfWeek) ==
    CASE frequency = "every_minute" -> cron = "* * * * *"
      [] frequency = "every_5_minutes" -> cron = "* * * * *" /\ minute % 5 = 0
      [] frequency = "every_15_minutes" -> cron = "* * * * *" /\ minute % 15 = 0
      [] frequency = "hourly" -> cron = "0 * * * *"
      [] frequency = "every_6_hours" -> cron = "0 * * * *" /\ hour % 6 = 0
      [] frequency = "daily" -> cron = "0 0 * * *"
      [] frequency = "weekly" -> cron = "0 0 * * *" /\ dayOfWeek = 7
      [] OTHER -> FALSE

(* core/scheduler.ts: shouldRun, the switch on frequency *)
shouldRun(frequency, cron, minute, hour, dayOfWeek) ==
    CASE frequency = "every_minute" -> cron = "* * * * *"
      [] frequency = "every_5_minutes" -> cron = "* * * * *" /\ minute % 5 = 0
      [] frequency = "every_15_minutes" -> cron = "* * * * *" /\ minute % 15 = 0
      [] frequency = "hourly" -> cron = "0 * * * *"
      [] frequency = "every_6_hours" -> cron = "0 * * * *" /\ hour % 6 = 0
      [] frequency = "daily" -> cron = "0 0 * * *"
      [] frequency = "weekly" -> cron = "0 0 * * *" /\ dayOfWeek = 0
      [] OTHER -> FALSE

(* Date.getUTCMinutes / getUTCHours / getUTCDay of a time in epoch minutes;
   1970-01-01 was a Thursday (day 4). *)
getUTCMinutes(t) == t % 60
getUTCHours(t) == (t \div 60) % 24
getUTCDay(t) == (4 + (t \div 1440)) % 7

----------------------------------------------------------------------------
(* The registered adapters (adapters/*/adapter.ts call registry.register at
   import time): id and the frequencies of its schedules, in order.  *)
Registry ==
    << [id |-> "demo", schedules |-> <<"hourly">>],
       [id |-> "ipma", schedules |-> <<"every_5_minutes", "every_15_minutes">>] >>

(* db/client.ts (registry): AdapterRegistry.getAll *)
getAll == Registry

AdapterIds == {getAll[i].id : i \in 1..Len(getAll)}

----------------------------------------------------------------------------
(* Values handlers pass to the storage primitives *)

\* Payload objects; the second has a property whose value is undefined.
Payloads == {"{v:1}", "{v:1,u:undefined}", "{v:2}"}
PayloadTypes == {"reading", "forecast"}
LocationIds == {NoLocation, "lisboa"}

\* The (payloadType, payload, locationId) arguments of the storeApiData calls
\* handlers make.
StoreInputs ==
    { << "reading", "{v:1}", NoLocation >>,
      << "reading", "{v:1,u:undefined}", "lisboa" >>,
      << "reading", "{v:2}", NoLocation >>,
      << "forecast", "{v:1}", NoLocation >> }

\* The storeApiData calls of the handlers run under the scheduler.
SchedulerInputs ==
    { << "reading", "{v:1}", NoLocation >>,
      << "reading", "{v:2}", NoLocation >> }

(* JSON.stringify(payload): properties holding undefined are left out *)
JSONstringify(payload) ==
    CASE payload = "{v:1}" -> "{\"v\":1}"
      [] payload = "{v:1,u:undefined}" -> "{\"v\":1}"
      [] payload = "{v:2}" -> "{\"v\":2}"
      [] payload = "[]" -> "[]"
      [] payload = "{idEstacao:1210881}" -> "{\"idEstacao\":1210881}"
      [] payload = "{idEstacao:1210881,nominatim:{pais:Portugal}}"
            -> "{\"idEstacao\":1210881,\"nominatim\":{\"pais\":\"Portugal\"}}"
      [] payload = "{globalIdLocal:1110600}" -> "{\"globalIdLocal\":1110600}"
      [] payload = "{globalIdLocal:1110600,nominatim:{pais:Portugal}}"
            -> "{\"globalIdLocal\":1110600,\"nominatim\":{\"pais\":\"Portugal\"}}"
      [] payload = "[uv,air-quality]" -> "[\"uv\",\"air-quality\"]"

\* A digest that depends on the length of its input only.
HashOfLength(input) == "afbf9d0f"

(* core/storage.ts: sha256, hex digest of the serialized payload
   (first 8 hex digits of the real digests) *)
sha256(input) ==
    CASE input = "{\"v\":1}" -> "afbf9d0f"
      [] input = "{\"v\":2}" -> "2b544279"

(* Values handlers raise: `throw undefined` before the first await, and a
   promise rejected with new Error("HTTP 503") *)
ThrownValues == { [kind |-> "undefined", message |-> ""] }
Rejections == { [kind |-> "Error", message |-> "HTTP 503"] }
NoError == [kind |-> "none", message |-> ""]

(* core/scheduler.ts runAdapter: err instanceof Error ? err.message : String(err) *)
ErrMessage(err) ==
    IF err.kind = "Error" THEN err.message ELSE "undefined"

----------------------------------------------------------------------------
(* api_data *)

(* The row storeApiData builds: id is
   `${adapterId}:${payloadType}:${locationId ?? "global"}:${timestamp}:${uuid}` *)
ApiDataRow(adapterId, payloadType, payload, locationId, timestamp, tags, uuid) ==
    [ id |-> << adapterId, payloadType,
                IF locationId = NoLocation THEN "global" ELSE locationId,
                timestamp, uuid >>,
      apiSource |-> adapterId,
      payloadType |-> payloadType,
      timestamp |-> timestamp,
      locationId |-> locationId,
      payload |-> JSONstringify(payload),
      tags |-> IF tags = Undefined THEN Null ELSE JSONstringify(tags),
      contentHash |-> sha256(JSONstringify(payload)) ]

\* The dedup key taken to be the row id.
DedupKeyIsId(row) == row.id

(* migrations/0002: unique index idx_api_data_dedup on
   (api_source, payload_type, content_hash) *)
DedupKey(row) == << row.apiSource, row.payloadType, row.contentHash >>

Keys(table) == {DedupKey(r) : r \in table}

\* A plain INSERT into a table without the unique index.
InsertAlways(table, row) == table \cup {row}

\* INSERT ... ON CONFLICT DO UPDATE: the row holding the key gives way to the
\* new one.
InsertOrReplace(table, row) ==
    {r \in table : DedupKey(r) # DedupKey(row)} \cup {row}

(* INSERT ... ON CONFLICT (api_source, payload_type, content_hash) DO NOTHING:
   the table afterwards *)
InsertOrIgnore(table, row) ==
    IF DedupKey(row) \in Keys(table)
    THEN table
    ELSE table \cup {row}

(* What the statement reports to its caller: a row written, the conflict
   skipped, or (never, with DO NOTHING on the index) a constraint error *)
InsertResult(table, row) ==
    IF DedupKey(row) \in Keys(table) THEN "ignored" ELSE "inserted"

(* core/storage.ts: BATCH_STMT_LIMIT *)
BATCH_STMT_LIMIT == 50

\* Item counts of the batches handlers submit: one chunk, and one item more
\* than a chunk holds.
BatchSizes == {2, BATCH_STMT_LIMIT + 1}

\* Payload of the i-th item of a batch: the first chunk alternates two objects
\* that serialize alike, later items carry another payload.
BatchItem(i) ==
    IF i <= BATCH_STMT_LIMIT
    THEN (IF i % 2 = 1 THEN "{v:1}" ELSE "{v:1,u:undefined}")
    ELSE "{v:2}"

\* A multi-row INSERT: every row is tested against the table as it was
\* before the statement, not against the rows before it in the chunk.
ChunkInsertBulk(table, rows, lo, hi) ==
    table \cup {rows[i] : i \in {k \in lo..hi :
                                   InsertResult(table, rows[k]) = "inserted"}}

(* db.batch(chunk.map(makeStmt)): the single-row statements lo..hi of `rows`,
   applied in order as one transaction.  Statement i writes its row unless
   the table, or an earlier statement of the chunk, holds the row's dedup
   key. *)
ChunkInsert(table, rows, lo, hi) ==
    LET written == {i \in lo..hi :
                      /\ InsertResult(table, rows[i]) = "inserted"
                      /\ \A k \in lo..(i - 1) : DedupKey(rows[k]) # DedupKey(rows[i])}
    IN table \cup {rows[i] : i \in written}

(* The chunk lo..hi of the batch a scheduled handler submits: items
   BatchItem(1..), no options *)
BatchInsert(table, adapterId, payloadType, timestamp, uuid, lo, hi) ==
    LET row(i) == ApiDataRow(adapterId, payloadType, BatchItem(i), NoLocation,
                             timestamp, Undefined, << uuid[1], uuid[2], i >>)
    IN ChunkInsert(table, [i \in 1..hi |-> row(i)], lo, hi)

Min(a, b) == IF a <= b THEN a ELSE b

----------------------------------------------------------------------------
(* ingest_log and sources *)

Terminal == {"success", "error"}

(* db/schema.ts sources: the columns the scheduler and the seed write *)
SourceRow(createdAt) ==
    [status |-> "active", lastFetchedAt |-> Never, createdAt |-> createdAt]

\* The upsert with status, last_fetched_at and created_at in its SET list.
UpsertSourceReset(table, id, createdAt) ==
    [x \in DOMAIN table \cup {id} |->
        IF x = id THEN SourceRow(createdAt) ELSE table[x]]

(* INSERT INTO sources ... ON CONFLICT (id) DO UPDATE SET name, description,
   source_url, data_types: an existing row keeps status, last_fetched_at and
   created_at *)
UpsertSource(table, id, createdAt) ==
    IF id \in DOMAIN table
    THEN table
    ELSE [x \in DOMAIN table \cup {id} |->
             IF x = id THEN SourceRow(createdAt) ELSE table[x]]

(* UPDATE sources SET last_fetched_at = ? WHERE id = ? *)
UpdateLastFetched(table, id, at) ==
    IF id \in DOMAIN table
    THEN [table EXCEPT ![id].lastFetchedAt = at]
    ELSE table

----------------------------------------------------------------------------
(* core/scheduler.ts: handleScheduled *)

\* Epoch minute of the trigger deliveries: Sunday 1970-01-04 00:00 UTC, when
\* the three crons fire.
TriggerTimes == {4320}

(* wrangler.jsonc crons: when the platform fires each trigger *)
CronFires(cron, t) ==
    CASE cron = MinuteCron -> TRUE
      [] cron = HourCron -> getUTCMinutes(t) = 0
      [] cron = DayCron -> getUTCMinutes(t) = 0 /\ getUTCHours(t) = 0
      [] OTHER -> FALSE

\* The (adapter, schedule) pairs in the order of the two nested loops.
RECURSIVE PairsFrom(_, _)
PairsFrom(a, s) ==
    IF a > Len(getAll) THEN << >>
    ELSE IF s > Len(getAll[a].schedules) THEN PairsFrom(a + 1, 1)
    ELSE << << a, s >> >> \o PairsFrom(a, s + 1)

\* The loop leaving an adapter at its first matching schedule.
MatchingOncePerAdapter(cron, scheduledTime) ==
    SelectSeq(PairsFrom(1, 1),
              LAMBDA p :
                 /\ shouldRun(getAll[p[1]].schedules[p[2]], cron,
                              getUTCMinutes(scheduledTime),
                              getUTCHours(scheduledTime),
                              getUTCDay(scheduledTime))
                 /\ \A n \in 1..(p[2] - 1) :
                       ~shouldRun(getAll[p[1]].schedules[n], cron,
                                  getUTCMinutes(scheduledTime),
                                  getUTCHours(scheduledTime),
                                  getUTCDay(scheduledTime)))

Matching(cron, scheduledTime) ==
    SelectSeq(PairsFrom(1, 1),
              LAMBDA p : shouldRun(getAll[p[1]].schedules[p[2]], cron,
                                   getUTCMinutes(scheduledTime),
                                   getUTCHours(scheduledTime),
                                   getUTCDay(scheduledTime)))

\* No storeApiData call, and no storeBatchApiData call, under way.
NoStore == [payloadType |-> "", payload |-> "", locationId |-> NoLocation,
            timestamp |-> 0]
NoBatch == [size |-> 0, pos |-> 0, high |-> 0, attempt |-> 0,
            payloadType |-> "", timestamp |-> 0]

\* A runAdapter call up to its first await: createAdapterContext has built
\* the context `ctx`.  `invocation` tells the handleScheduled call that made
\* it: the time of the delivery.
NewJob(pair, cron, scheduledTime, ctx) ==
    [ adapterId |-> getAll[pair[1]].id,
      ctx |-> ctx,
      schedule |-> pair[2],
      cron |-> cron,
      scheduledTime |-> scheduledTime,
      invocation |-> now + 1,
      pc |-> "logStart",
      logId |-> 0,
      ops |-> << >>,
      store |-> NoStore,
      batch |-> NoBatch,
      outcome |-> "pending",
      fetchedAt |-> Never,
      err |-> NoError ]

handleScheduled(cron, scheduledTime) ==
    LET m == Matching(cron, scheduledTime) IN
    /\ Len(jobs) + Len(m) <= MaxJobs
    /\ jobs' = jobs \o [k \in 1..Len(m) |->
                         NewJob(m[k], cron, scheduledTime, Len(jobs) + k)]
    /\ now' = IF Len(m) > 0 THEN now + 1 ELSE now
    /\ UNCHANGED <<apiData, ingestLog, sources, seeded, seedPos>>
    /\ UNCHANGED <<srVars, appVars, clockVars, storeVars>>

----------------------------------------------------------------------------
(* core/scheduler.ts: runAdapter, one action per await *)

JobIds == 1..Len(jobs)

RECURSIVE SumOps(_)
SumOps(j) == IF j = 0 THEN 0
             ELSE SumOps(j - 1) + Len(jobs[j].ops)
                  + (IF jobs[j].pc \in {"store", "batch"} THEN 1 ELSE 0)

\* Storage calls made so far by all handlers.
StoresSoFar == SumOps(Len(jobs))

SetJob(j, rec) == jobs' = [jobs EXCEPT ![j] = rec]

(* core/storage.ts: logIngestStart; the row's id is the autoincrement key *)
logIngestStart(j) ==
    /\ j \in JobIds
    /\ jobs[j].pc = "logStart"
    /\ ingestLog' = Append(ingestLog,
           [adapterId |-> jobs[j].adapterId, status |-> "running",
            recordsCount |-> 0, error |-> ""])
    /\ SetJob(j, [jobs[j] EXCEPT !.logId = Len(ingestLog) + 1, !.pc = "handler"])
    /\ UNCHANGED <<apiData, sources, now, seeded, seedPos>>
    /\ UNCHANGED <<srVars, appVars, clockVars, storeVars>>

(* The handler throws before its first await: `handler(adapterCtx)` raises
   inside the try block *)
HandlerThrows(j, e) ==
    /\ j \in JobIds
    /\ jobs[j].pc = "handler"
    /\ jobs[j].ops = << >>
    /\ SetJob(j, [jobs[j] EXCEPT !.outcome = "threw", !.err = e, !.pc = "catch"])
    /\ UNCHANGED <<apiData, ingestLog, sources, now, seeded, seedPos>>
    /\ UNCHANGED <<srVars, appVars, clockVars, storeVars>>

\* runAdapter without a catch for rejections.
HandlerRejectsUncaught(j, e) ==
    /\ j \in JobIds
    /\ jobs[j].pc = "handler"
    /\ jobs' = [jobs EXCEPT ![j] =
                   [@ EXCEPT !.outcome = "rejected", !.err = e, !.pc = "unhandled"]]
    /\ UNCHANGED <<apiData, ingestLog, sources, now, seeded, seedPos>>
    /\ UNCHANGED <<srVars, appVars, clockVars, storeVars>>

(* The handler's promise rejects *)
HandlerRejects(j, e) ==
    /\ j \in JobIds
    /\ jobs[j].pc = "handler"
    /\ SetJob(j, [jobs[j] EXCEPT !.outcome = "rejected", !.err = e, !.pc = "catch"])
    /\ UNCHANGED <<apiData, ingestLog, sources, now, seeded, seedPos>>
    /\ UNCHANGED <<srVars, appVars, clockVars, storeVars>>

(* The handler's promise resolves *)
HandlerReturns(j) ==
    /\ j \in JobIds
    /\ jobs[j].pc = "handler"
    /\ SetJob(j, [jobs[j] EXCEPT !.outcome = "returned", !.pc = "logSuccess"])
    /\ UNCHANGED <<apiData, ingestLog, sources, now, seeded, seedPos>>
    /\ UNCHANGED <<srVars, appVars, clockVars, storeVars>>

(* core/storage.ts: storeApiData, called by the handler as
   ctx.storeApiData(adapterId, payloadType, payload, { locationId }), up to
   its first await: `now` is read and becomes the row's timestamp *)
storeApiData(j, payloadType, payload, locationId) ==
    /\ j \in JobIds
    /\ jobs[j].pc = "handler"
    /\ StoresSoFar < MaxStores
    /\ SetJob(j, [jobs[j] EXCEPT
           !.pc = "store",
           !.store = [payloadType |-> payloadType, payload |-> payload,
                      locationId |-> locationId, timestamp |-> now]])
    /\ UNCHANGED <<apiData, ingestLog, sources, now, seeded, seedPos>>
    /\ UNCHANGED <<srVars, appVars, clockVars, storeVars>>

(* storeApiData: the hash is computed, D1 applies the INSERT ... ON CONFLICT DO
   NOTHING of the row built at the call, and the call returns to the handler *)
ApiDataInsert(j) ==
    /\ j \in JobIds
    /\ jobs[j].pc = "store"
    /\ LET c == jobs[j].store
           row == ApiDataRow(jobs[j].adapterId, c.payloadType, c.payload,
                             c.locationId, c.timestamp, Undefined,
                             << j, Len(jobs[j].ops) + 1, 0 >>)
       IN /\ apiData' = InsertOrIgnore(apiData, row)
          /\ SetJob(j, [jobs[j] EXCEPT
                 !.pc = "handler",
                 !.store = NoStore,
                 !.ops = Append(@,
                    [kind |-> "store", payloadType |-> c.payloadType,
                     payload |-> c.payload, locationId |-> c.locationId,
                     size |-> 1,
                     result |-> InsertResult(apiData, row),
                     added |-> Cardinality(apiData') - Cardinality(apiData)])])
    /\ UNCHANGED <<ingestLog, sources, now, seeded, seedPos>>
    /\ UNCHANGED <<srVars, appVars, clockVars, storeVars>>

(* core/storage.ts: storeBatchApiData up to its first db.batch: the rows are
   built, with `now` read once *)
storeBatchApiData(j, payloadType, size) ==
    /\ j \in JobIds
    /\ jobs[j].pc = "handler"
    /\ StoresSoFar < MaxStores
    /\ SetJob(j, [jobs[j] EXCEPT
           !.pc = "batch",
           !.batch = [size |-> size, pos |-> 1, high |-> 1, attempt |-> 0,
                      payloadType |-> payloadType, timestamp |-> now]])
    /\ UNCHANGED <<apiData, ingestLog, sources, now, seeded, seedPos>>
    /\ UNCHANGED <<srVars, appVars, clockVars, storeVars>>

(* core/storage.ts: storeBatchApiData, one db.batch call: the next chunk of
   at most BATCH_STMT_LIMIT statements *)
BatchChunk(j) ==
    LET b == jobs[j].batch
        hi == Min(b.pos + BATCH_STMT_LIMIT - 1, b.size)
    IN
    /\ j \in JobIds
    /\ jobs[j].pc = "batch"
    /\ apiData' = BatchInsert(apiData, jobs[j].adapterId, b.payloadType,
                              b.timestamp, << j, Len(jobs[j].ops) + 1 >>,
                              b.pos, hi)
    /\ IF hi < b.size
       THEN SetJob(j, [jobs[j] EXCEPT
                !.batch.pos = hi + 1,
                !.batch.high = IF hi + 1 > @ THEN hi + 1 ELSE @])
       ELSE SetJob(j, [jobs[j] EXCEPT
                !.pc = "handler",
                !.batch = NoBatch,
                !.ops = Append(@,
                    [kind |-> "batch", payloadType |-> b.payloadType,
                     payload |-> "", locationId |-> NoLocation,
                     size |-> b.size,
                     result |-> "batched", added |-> 0])])
    /\ UNCHANGED <<ingestLog, sources, now, seeded, seedPos>>
    /\ UNCHANGED <<srVars, appVars, clockVars, storeVars>>

(* The isolate is evicted while storeBatchApiData is between two db.batch
   calls, or waiting for one: a chunk under way is committed as a whole or
   not at all. *)
BatchKilled(j) ==
    /\ j \in JobIds
    /\ jobs[j].pc = "batch"
    /\ SetJob(j, [jobs[j] EXCEPT !.pc = "killed"])
    /\ UNCHANGED <<apiData, ingestLog, sources, now, seeded, seedPos>>
    /\ UNCHANGED <<srVars, appVars, clockVars, storeVars>>

(* core/storage.ts: logIngestSuccess(db, logId, 0): D1 applies the update *)
logIngestSuccess(j) ==
    /\ j \in JobIds
    /\ jobs[j].pc = "logSuccess"
    /\ ingestLog' = [ingestLog EXCEPT ![jobs[j].logId] =
           [@ EXCEPT !.status = "success", !.recordsCount = 0]]
    /\ SetJob(j, [jobs[j] EXCEPT !.pc = "logged"])
    /\ UNCHANGED <<apiData, sources, now, seeded, seedPos>>
    /\ UNCHANGED <<srVars, appVars, clockVars, storeVars>>

(* runAdapter resumes after `await logIngestSuccess` and builds the sources
   update: `new Date()` is read here, before the statement is awaited *)
ReadLastFetchedAt(j) ==
    /\ j \in JobIds
    /\ jobs[j].pc = "logged"
    /\ SetJob(j, [jobs[j] EXCEPT !.pc = "updateSource", !.fetchedAt = now])
    /\ UNCHANGED <<apiData, ingestLog, sources, now, seeded, seedPos>>
    /\ UNCHANGED <<srVars, appVars, clockVars, storeVars>>

(* runAdapter: D1 applies db.update(sources).set({ lastFetchedAt: ... })
   .where(eq(sources.id, adapterId)), with the time read when the statement
   was built; runAdapter returns *)
UpdateSource(j) ==
    /\ j \in JobIds
    /\ jobs[j].pc = "updateSource"
    /\ sources' = UpdateLastFetched(sources, jobs[j].adapterId, jobs[j].fetchedAt)
    /\ SetJob(j, [jobs[j] EXCEPT !.pc = "done", !.fetchedAt = Never])
    /\ UNCHANGED <<apiData, ingestLog, now, seeded, seedPos>>
    /\ UNCHANGED <<srVars, appVars, clockVars, storeVars>>

\* The last_fetched_at update placed after the try/catch, so that it runs on
\* the error path too.
logIngestErrorThenUpdate(j) ==
    /\ j \in JobIds
    /\ jobs[j].pc = "catch"
    /\ ingestLog' = [ingestLog EXCEPT ![jobs[j].logId] =
           [@ EXCEPT !.status = "error", !.error = ErrMessage(jobs[j].err)]]
    /\ sources' = UpdateLastFetched(sources, jobs[j].adapterId, now)
    /\ jobs' = [jobs EXCEPT ![j] = [@ EXCEPT !.pc = "done"]]
    /\ UNCHANGED <<apiData, now, seeded, seedPos>>
    /\ UNCHANGED <<srVars, appVars, clockVars, storeVars>>

(* core/storage.ts: logIngestError(db, logId, message), from the catch block *)
logIngestError(j) ==
    /\ j \in JobIds
    /\ jobs[j].pc = "catch"
    /\ ingestLog' = [ingestLog EXCEPT ![jobs[j].logId] =
           [@ EXCEPT !.status = "error", !.error = ErrMessage(jobs[j].err)]]
    /\ SetJob(j, [jobs[j] EXCEPT !.pc = "done"])
    /\ UNCHANGED <<apiData, sources, now, seeded, seedPos>>
    /\ UNCHANGED <<srVars, appVars, clockVars, storeVars>>

----------------------------------------------------------------------------
(* Database writes of runAdapter that fail: D1 rejects the statement.  None
   of them is wrapped in withRetry. *)

DbError == [kind |-> "Error", message |-> "D1_ERROR"]

(* logIngestStart rejects: runAdapter rejects before the try block *)
logIngestStartFails(j) ==
    /\ j \in JobIds
    /\ jobs[j].pc = "logStart"
    /\ SetJob(j, [jobs[j] EXCEPT !.pc = "unhandled", !.err = DbError])
    /\ UNCHANGED <<apiData, ingestLog, sources, now, seeded, seedPos>>
    /\ UNCHANGED <<srVars, appVars, clockVars, storeVars>>

(* logIngestSuccess rejects inside the try block *)
logIngestSuccessFails(j) ==
    /\ j \in JobIds
    /\ jobs[j].pc = "logSuccess"
    /\ SetJob(j, [jobs[j] EXCEPT !.pc = "catch", !.err = DbError])
    /\ UNCHANGED <<apiData, ingestLog, sources, now, seeded, seedPos>>
    /\ UNCHANGED <<srVars, appVars, clockVars, storeVars>>

(* The sources update rejects inside the try block, after logIngestSuccess *)
UpdateSourceFails(j) ==
    /\ j \in JobIds
    /\ jobs[j].pc = "updateSource"
    /\ SetJob(j, [jobs[j] EXCEPT !.pc = "catch", !.err = DbError])
    /\ UNCHANGED <<apiData, ingestLog, sources, now, seeded, seedPos>>
    /\ UNCHANGED <<srVars, appVars, clockVars, storeVars>>

(* logIngestError rejects inside the catch block: runAdapter rejects *)
logIngestErrorFails(j) ==
    /\ j \in JobIds
    /\ jobs[j].pc = "catch"
    /\ SetJob(j, [jobs[j] EXCEPT !.pc = "unhandled", !.err = DbError])
    /\ UNCHANGED <<apiData, ingestLog, sources, now, seeded, seedPos>>
    /\ UNCHANGED <<srVars, appVars, clockVars, storeVars>>

----------------------------------------------------------------------------
(* index.ts seed middleware and adapters/seed.ts seedSources *)

MaxSeedPasses == 2    \* seedSources calls of one isolate

\* seedPos holds one record per seedSources call of the isolate: the adapter
\* whose upsert was built last, the `new Date()` read for its created_at, and
\* whether the call waits for D1 ("upsert"), D1 has applied the statement and
\* the call has not resumed ("applied"), or the call has returned.  The time
\* read is dropped with the statement it was read for.
SeedOver == [pos |-> 0, createdAt |-> Never, pc |-> "returned"]

SeedReturned == \A p \in 1..Len(seedPos) : seedPos[p] = SeedOver

(* An HTTP request reaches the middleware while seeded is false: seedSources
   starts its loop over registry.getAll() and builds the first upsert *)
SeedStart ==
    /\ ~seeded
    /\ Len(seedPos) < MaxSeedPasses
    /\ seedPos' = Append(seedPos, [pos |-> 1, createdAt |-> now, pc |-> "upsert"])
    /\ UNCHANGED <<apiData, ingestLog, sources, jobs, now, seeded>>
    /\ UNCHANGED <<srVars, appVars, clockVars, storeVars>>

(* seedSources: D1 applies the awaited upsert of one adapter *)
SeedStep(p) ==
    /\ p <= Len(seedPos)
    /\ seedPos[p].pc = "upsert"
    /\ sources' = UpsertSource(sources, getAll[seedPos[p].pos].id,
                               seedPos[p].createdAt)
    /\ seedPos' = [seedPos EXCEPT ![p].pc = "applied", ![p].createdAt = Never]
    /\ UNCHANGED <<apiData, ingestLog, jobs, now, seeded>>
    /\ UNCHANGED <<srVars, appVars, clockVars, storeVars>>

(* seedSources resumes after the await: the loop builds the upsert of the
   next adapter, with createdAt: new Date() *)
SeedResume(p) ==
    /\ p <= Len(seedPos)
    /\ seedPos[p].pc = "applied"
    /\ seedPos[p].pos < Len(getAll)
    /\ seedPos' = [seedPos EXCEPT ![p] =
                      [pos |-> @.pos + 1, createdAt |-> now, pc |-> "upsert"]]
    /\ UNCHANGED <<apiData, ingestLog, sources, jobs, now, seeded>>
    /\ UNCHANGED <<srVars, appVars, clockVars, storeVars>>

(* The last await is over: seedSources returns and the middleware sets
   seeded = true *)
SeedReturns(p) ==
    /\ p <= Len(seedPos)
    /\ seedPos[p].pc = "applied"
    /\ seedPos[p].pos = Len(getAll)
    /\ seeded' = TRUE
    /\ seedPos' = [seedPos EXCEPT ![p] = SeedOver]
    /\ UNCHANGED <<apiData, ingestLog, sources, jobs, now>>
    /\ UNCHANGED <<srVars, appVars, clockVars, storeVars>>

(* A new isolate serves the next request: the module-level `let seeded =
   false` is evaluated again *)
NewIsolate ==
    /\ seeded
    /\ SeedReturned
    /\ seeded' = FALSE
    /\ seedPos' = << >>
    /\ UNCHANGED <<apiData, ingestLog, sources, jobs, now>>
    /\ UNCHANGED <<srVars, appVars, clockVars, storeVars>>

----------------------------------------------------------------------------
(* shouldRun applied to arguments drawn from bounded sets *)

SrInputs ==
    [ frequency : CronFrequency \cup OtherFrequencies,
      cron : CronTriggers \cup OtherCrons,
      minute : 0..59,
      hour : 0..23,
      dayOfWeek : 0..6 ]

SrIdle ==
    /\ srIn = [frequency |-> "hourly", cron |-> HourCron, minute |-> 0,
               hour |-> 0, dayOfWeek |-> 0]
    /\ srOut = [called |-> FALSE, result |-> FALSE]

CallShouldRun ==
    /\ ~srOut.called
    /\ srOut' = [called |-> TRUE,
                 result |-> shouldRun(srIn.frequency, srIn.cron, srIn.minute,
                                      srIn.hour, srIn.dayOfWeek)]
    /\ UNCHANGED <<srIn, appVars, pipeVars, clockVars, storeVars>>

----------------------------------------------------------------------------
(* The platform's cron scheduler: each configured trigger is delivered once at
   each of its firing times, and handleScheduled tests every schedule with
   shouldRun.  One schedule of each frequency is registered. *)

MinutesPerWeek == 7 * 24 * 60
ClockEnd == MaxWeeks * MinutesPerWeek

Firing(t) == {c \in CronTriggers : CronFires(c, t)}

ClockIdle ==
    /\ clock = 0
    /\ pending = {}
    /\ fired = [f \in CronFrequency |-> 0]
    /\ lastFired = [f \in CronFrequency |-> Never]

ClockInit ==
    /\ clock = 0
    /\ pending = Firing(0)
    /\ fired = [f \in CronFrequency |-> 0]
    /\ lastFired = [f \in CronFrequency |-> Never]

(* handleScheduled for one delivery: line 330 decides each schedule *)
Dispatches(f, cron, t) ==
    shouldRun(f, cron, getUTCMinutes(t), getUTCHours(t), getUTCDay(t))

Deliver(cron) ==
    /\ cron \in pending
    /\ pending' = pending \ {cron}
    /\ fired' = [f \in CronFrequency |->
                    IF Dispatches(f, cron, clock) THEN fired[f] + 1 ELSE fired[f]]
    /\ UNCHANGED <<clock, lastFired, pipeVars, srVars, appVars, storeVars>>

Tick ==
    /\ pending = {}
    /\ clock < ClockEnd
    /\ clock' = clock + 1
    /\ pending' = Firing(clock + 1)
    /\ lastFired' = [f \in CronFrequency |->
                        IF fired[f] > 0 THEN clock ELSE lastFired[f]]
    /\ fired' = [f \in CronFrequency |-> 0]
    /\ UNCHANGED <<pipeVars, srVars, appVars, storeVars>>

----------------------------------------------------------------------------
(* core/storage.ts: withRetry, and the database writes of the storage layer.
   One write is followed from its call to its return or throw; the outcome
   of each attempt of the statement is drawn beforehand (`script`). *)

(* core/storage.ts: MAX_RETRIES, BASE_DELAY_MS *)
MAX_RETRIES == 3
BASE_DELAY_MS == 200

(* Values a D1 statement rejects with.  A message is written as the sequence
   of its parts, cut so that every allow-list signature occurring in it is
   one part: String.includes(sig) is then "sig is a part". *)
D1Errors ==
    { [kind |-> "Error", text |-> << "D1_ERROR", ": database is locked: ", "SQLITE_BUSY" >>],
      [kind |-> "Error", text |-> << "SQLITE_CONSTRAINT", ": NOT NULL constraint failed" >>],
      [kind |-> "Error", text |-> << "no such table: api_data" >>],
      [kind |-> "string", text |-> << "fetch failed" >>] }

Ok == [kind |-> "ok", text |-> << >>]

\* Outcomes of the attempts of one statement, in order; one more than
\* withRetry may use.
Scripts == [1..(MAX_RETRIES + 1) -> D1Errors \cup {Ok}]

(* withRetry: error instanceof Error ? error.message : String(error) *)
MessageOf(error) ==
    CASE error.kind = "Error" -> error.text
      [] error.kind = "string" -> error.text

Includes(message, signature) ==
    \E i \in 1..Len(message) : message[i] = signature

(* withRetry: isTransient *)
isTransient(message) ==
    \/ Includes(message, "SQLITE_BUSY")
    \/ Includes(message, "D1_ERROR")
    \/ Includes(message, "network")
    \/ Includes(message, "fetch failed")
    \/ Includes(message, "Too many requests")

\* The delay computed with attempts counted from 1.
BackoffFromOne(attempt) == BASE_DELAY_MS * 2 ^ (attempt + 1)

(* withRetry: const delay = BASE_DELAY_MS * 2 ** attempt *)
Backoff(attempt) == BASE_DELAY_MS * 2 ^ attempt

----------------------------------------------------------------------------
(* core/storage.ts: storeBatchApiData, a db.batch call that rejects.  The
   chunk loop is the function handed to withRetry. *)

\* db.batch outside a transaction: the chunk's first statement stays written
\* when a later one fails.
BatchChunkFailsPartial(j, error) ==
    /\ j \in JobIds
    /\ jobs[j].pc = "batch"
    /\ ~isTransient(MessageOf(error)) \/ jobs[j].batch.attempt = MAX_RETRIES - 1
    /\ apiData' = BatchInsert(apiData, jobs[j].adapterId, jobs[j].batch.payloadType,
                              jobs[j].batch.timestamp, << j, Len(jobs[j].ops) + 1 >>,
                              jobs[j].batch.pos, jobs[j].batch.pos)
    /\ jobs' = [jobs EXCEPT ![j] = [@ EXCEPT !.pc = "failed"]]
    /\ UNCHANGED <<ingestLog, sources, now, seeded, seedPos>>
    /\ UNCHANGED <<srVars, appVars, clockVars, storeVars>>

(* A db.batch call rejects with an error that is not transient, or in the
   last attempt.  D1 runs the statements of a batch as one transaction, so
   none of the chunk's rows is written; withRetry rethrows and the call
   rejects with the chunk loop where it was. *)
BatchChunkFails(j, error) ==
    /\ j \in JobIds
    /\ jobs[j].pc = "batch"
    /\ ~isTransient(MessageOf(error)) \/ jobs[j].batch.attempt = MAX_RETRIES - 1
    /\ SetJob(j, [jobs[j] EXCEPT !.pc = "failed"])
    /\ UNCHANGED <<apiData, ingestLog, sources, now, seeded, seedPos>>
    /\ UNCHANGED <<srVars, appVars, clockVars, storeVars>>

(* A db.batch call rejects with a transient error before the last attempt:
   none of the chunk's rows is written, and after the backoff withRetry calls
   the function again, whose chunk loop starts at i = 0 with the rows built
   before *)
BatchChunkRetry(j, error) ==
    /\ j \in JobIds
    /\ jobs[j].pc = "batch"
    /\ isTransient(MessageOf(error))
    /\ jobs[j].batch.attempt < MAX_RETRIES - 1
    /\ SetJob(j, [jobs[j] EXCEPT !.batch.pos = 1, !.batch.attempt = @ + 1])
    /\ UNCHANGED <<apiData, ingestLog, sources, now, seeded, seedPos>>
    /\ UNCHANGED <<srVars, appVars, clockVars, storeVars>>

(* The database writes of the storage layer *)
WriteOps ==
    {"registerLocation", "storeApiData", "storeBatchApiData", "uploadDocument",
     "logIngestStart", "logIngestSuccess", "logIngestError"}

(* Which of them pass their statement to withRetry *)
UsesWithRetry(op) ==
    op \in {"registerLocation", "storeApiData", "storeBatchApiData"}

\* Idle values of the parts of the storage layer a specification leaves alone.
NoEq == [pc |-> "idle"]
NoLocCalls == [issued |-> << >>, applied |-> << >>]
NoRerun == [pc |-> "idle"]

NoCall == [pc |-> "idle"]

\* Nothing registered beyond the built-in adapters, no request under way.
NoReg == [pc |-> "idle"]
NoKv == [pc |-> "idle"]
NoWeb == [pc |-> "idle"]
NoSync == [pc |-> "idle"]

AppIdle == reg = NoReg /\ kv = NoKv /\ web = NoWeb /\ sync = NoSync

StoreIdle ==
    /\ call = NoCall
    /\ eq = NoEq
    /\ locations = {} /\ locCalls = NoLocCalls
    /\ r2 = {} /\ documents = {} /\ uploads = << >>
    /\ rerun = NoRerun

\* withRetry rethrowing whatever the attempt threw, at once.
WithRetryNoRetry ==
    /\ call.pc = "attempt"
    /\ UsesWithRetry(call.op)
    /\ LET outcome == call.script[call.calls + 1] IN
       IF outcome = Ok
       THEN call' = [call EXCEPT !.calls = @ + 1, !.pc = "returned"]
       ELSE call' = [call EXCEPT !.calls = @ + 1, !.pc = "threw",
                        !.error = [kind |-> outcome.kind, text |-> outcome.text,
                                   thrownBy |-> call.calls + 1]]
    /\ UNCHANGED <<pipeVars, srVars, appVars, clockVars, eq, locVars, docVars, rerun>>

(* withRetry, one pass of the loop body up to its await: `return await fn()`
   and the catch block.  The error object thrown by attempt n is marked
   thrownBy = n. *)
WithRetryAttempt ==
    /\ call.pc = "attempt"
    /\ UsesWithRetry(call.op)
    /\ call.attempt < MAX_RETRIES
    /\ LET outcome == call.script[call.calls + 1]
           error == [kind |-> outcome.kind, text |-> outcome.text,
                     thrownBy |-> call.calls + 1]
       IN
       IF outcome = Ok
       THEN call' = [call EXCEPT !.calls = @ + 1, !.pc = "returned"]
       ELSE IF ~isTransient(MessageOf(outcome)) \/ call.attempt = MAX_RETRIES - 1
       THEN call' = [call EXCEPT !.calls = @ + 1, !.pc = "threw",
                                 !.error = error]
       ELSE call' = [call EXCEPT !.calls = @ + 1, !.pc = "wait",
                                 !.error = error,
                                 !.waits = Append(@, Backoff(call.attempt))]
    /\ UNCHANGED <<pipeVars, srVars, appVars, clockVars, eq, locVars, docVars, rerun>>

(* withRetry: the setTimeout of the backoff fires, attempt++ *)
WithRetryWake ==
    /\ call.pc = "wait"
    /\ call' = [call EXCEPT !.attempt = @ + 1, !.pc = "attempt"]
    /\ UNCHANGED <<pipeVars, srVars, appVars, clockVars, eq, locVars, docVars, rerun>>

(* A write awaited directly (uploadDocument's documents insert, logIngestStart,
   logIngestSuccess, logIngestError): whatever the statement rejects with
   reaches the caller *)
DirectWrite ==
    /\ call.pc = "attempt"
    /\ ~UsesWithRetry(call.op)
    /\ LET outcome == call.script[call.calls + 1] IN
       IF outcome = Ok
       THEN call' = [call EXCEPT !.calls = @ + 1, !.pc = "returned"]
       ELSE call' = [call EXCEPT !.calls = @ + 1, !.pc = "threw",
                        !.error = [kind |-> outcome.kind, text |-> outcome.text,
                                   thrownBy |-> call.calls + 1]]
    /\ UNCHANGED <<pipeVars, srVars, appVars, clockVars, eq, locVars, docVars, rerun>>

----------------------------------------------------------------------------
(* core/storage.ts: one list of items written twice from the same table, by
   one storeBatchApiData call and by one storeApiData call per item *)

MaxItems == 2         \* items of the freely chosen lists

\* Items: payload and options { locationId, timestamp, tags }; timestamp Never
\* is options.timestamp left undefined.
Items ==
    [payload : Payloads, locationId : LocationIds, timestamp : {Never, 7},
     tags : {Undefined}]

\* options.tags: left out, an empty array, the tags fetchUvIndex passes.
TagLists == {Undefined, "[]", "[uv,air-quality]"}

\* Items that serialize to the same payload text and differ in their options.
TaggedItems ==
    [payload : {"{v:1}", "{v:1,u:undefined}"}, locationId : LocationIds,
     timestamp : {Never, 7}, tags : TagLists]

PlainItem(payload) ==
    [payload |-> payload, locationId |-> NoLocation, timestamp |-> Never,
     tags |-> Undefined]

\* A list one item longer than a chunk: a, then b up to the chunk's end,
\* then c in the second chunk.
LongList(a, b, c) ==
    [i \in 1..(BATCH_STMT_LIMIT + 1) |->
        IF i = 1 THEN PlainItem(a)
        ELSE IF i <= BATCH_STMT_LIMIT THEN PlainItem(b) ELSE PlainItem(c)]

ItemLists ==
    UNION {[1..n -> Items] : n \in 0..MaxItems}
       \cup {LongList(a, b, c) : a \in Payloads, b \in Payloads, c \in Payloads}

\* The table before the writes: empty, or holding a row stored earlier.
StartTables ==
    { {}, {ApiDataRow("demo", "reading", "{v:1}", NoLocation, 50, Undefined,
                  << 0, 0, 0 >>)} }

(* const timestamp = options?.timestamp ?? now *)
TimestampOr(timestamp, clockNow) ==
    IF timestamp = Never THEN clockNow ELSE timestamp

(* storeBatchApiData: const rows = items.map(...), with `now` read once *)
BatchRows(adapterId, payloadType, items, clockNow, uuid) ==
    [i \in 1..Len(items) |->
        ApiDataRow(adapterId, payloadType, items[i].payload, items[i].locationId,
                   TimestampOr(items[i].timestamp, clockNow), items[i].tags,
                   << uuid[1], uuid[2], i >>)]

(* storeBatchApiData: `if (items.length === 0) return []`, else the next
   db.batch call *)
EqBatchChunk ==
    /\ eq.pc = "batch"
    /\ LET n == Len(eq.items)
           hi == Min(eq.pos + BATCH_STMT_LIMIT - 1, n)
           rows == BatchRows("demo", "reading", eq.items, eq.t0, << 0, 1 >>)
       IN IF n = 0
          THEN eq' = [eq EXCEPT !.pc = "seq", !.pos = 1]
          ELSE eq' = [eq EXCEPT
                         !.batch = ChunkInsert(@, rows, eq.pos, hi),
                         !.pos = IF hi < n THEN hi + 1 ELSE 1,
                         !.pc = IF hi < n THEN "batch" ELSE "seq"]
    /\ UNCHANGED <<pipeVars, srVars, appVars, clockVars, call, locVars, docVars, rerun>>

(* storeApiData for the next item of the list; the clock has advanced by
   eq.tick since the call before.  eq.ids collects the ids the calls return. *)
EqStore ==
    /\ eq.pc = "seq"
    /\ eq.pos <= Len(eq.items)
    /\ LET item == eq.items[eq.pos]
           clockNow == eq.t0 + (eq.pos - 1) * eq.tick
           row == ApiDataRow("demo", "reading", item.payload, item.locationId,
                             TimestampOr(item.timestamp, clockNow), item.tags,
                             << 0, 2, eq.pos >>)
       IN eq' = [eq EXCEPT !.seq = InsertOrIgnore(@, row), !.pos = @ + 1,
                          !.ids = Append(@, row.id)]
    /\ UNCHANGED <<pipeVars, srVars, appVars, clockVars, call, locVars, docVars, rerun>>

\* The last storeApiData call has returned.
EqEnd ==
    /\ eq.pc = "seq"
    /\ eq.pos > Len(eq.items)
    /\ eq' = [eq EXCEPT !.pc = "done"]
    /\ UNCHANGED <<pipeVars, srVars, appVars, clockVars, call, locVars, docVars, rerun>>

----------------------------------------------------------------------------
(* core/storage.ts: storeBatchApiData under withRetry.  The function passed
   to withRetry is the whole chunk loop; `rows` is built once, before it.
   The outcome of every db.batch call is drawn beforehand (`script`); a
   db.batch that rejects has written nothing. *)

\* Outcomes of a db.batch call: accepted, a transient error, another error.
BatchOutcomes ==
    { Ok,
      [kind |-> "Error", text |-> << "D1_ERROR", ": database is locked: ", "SQLITE_BUSY" >>],
      [kind |-> "Error", text |-> << "no such table: api_data" >>] }

\* The lists submitted: one chunk, and one item more than a chunk.
RetryLists ==
    { << PlainItem("{v:1}"), PlainItem("{v:2}") >> }
       \cup {LongList(a, "{v:2}", c) : a \in Payloads, c \in Payloads}

\* Number of db.batch calls one pass of the loop makes for n rows.
ChunksOf(n) == (n + BATCH_STMT_LIMIT - 1) \div BATCH_STMT_LIMIT

\* The rows of the call under way.
RetryRows == BatchRows("demo", "reading", call.items, call.t0, << 0, 1 >>)

\* The table after the chunks from position lo on have all been accepted.
RECURSIVE AllChunks(_, _, _)
AllChunks(table, rows, lo) ==
    IF lo > Len(rows) THEN table
    ELSE LET hi == Min(lo + BATCH_STMT_LIMIT - 1, Len(rows))
         IN AllChunks(ChunkInsert(table, rows, lo, hi), rows, hi + 1)

(* One db.batch call of the loop: the chunk starting at call.pos.  Accepted,
   the loop moves on, and after the last chunk withRetry returns and
   storeBatchApiData returns rows.map((r) => r.id); rejected, the catch block
   of withRetry rethrows or waits. *)
BatchSubmit ==
    /\ call.pc = "attempt"
    /\ call.op = "retryBatch"
    /\ LET rows == RetryRows
           n == Len(rows)
           hi == Min(call.pos + BATCH_STMT_LIMIT - 1, n)
           outcome == call.script[call.calls + 1]
       IN
       IF outcome = Ok
       THEN call' = [call EXCEPT
                        !.calls = @ + 1,
                        !.table = ChunkInsert(@, rows, call.pos, hi),
                        !.submitted = Append(@, call.pos),
                        !.pos = IF hi < n THEN hi + 1 ELSE 1,
                        !.pc = IF hi < n THEN "attempt" ELSE "returned",
                        !.out = IF hi < n THEN @ ELSE [i \in 1..n |-> rows[i].id]]
       ELSE IF ~isTransient(MessageOf(outcome)) \/ call.attempt = MAX_RETRIES - 1
       THEN call' = [call EXCEPT !.calls = @ + 1, !.pc = "threw",
                                 !.submitted = Append(@, call.pos)]
       ELSE call' = [call EXCEPT !.calls = @ + 1, !.pc = "wait",
                                 !.submitted = Append(@, call.pos)]
    /\ UNCHANGED <<pipeVars, srVars, appVars, clockVars, eq, locVars, docVars, rerun>>

\* The next attempt going on with the chunk that was rejected.
BatchRetryResume ==
    /\ call.pc = "wait"
    /\ call.op = "retryBatch"
    /\ call' = [call EXCEPT !.attempt = @ + 1, !.pc = "attempt"]
    /\ UNCHANGED <<pipeVars, srVars, appVars, clockVars, eq, locVars, docVars, rerun>>

(* withRetry: the backoff is over, attempt++, fn() is called again: the loop
   starts at i = 0 *)
BatchRetry ==
    /\ call.pc = "wait"
    /\ call.op = "retryBatch"
    /\ call' = [call EXCEPT !.attempt = @ + 1, !.pc = "attempt", !.pos = 1]
    /\ UNCHANGED <<pipeVars, srVars, appVars, clockVars, eq, locVars, docVars, rerun>>

----------------------------------------------------------------------------
(* core/storage.ts: registerLocation *)

MaxLocCalls == 3      \* registerLocation calls over a behaviour

(* core/adapter.ts LocationInput: the locations handlers register.  The same
   id comes with all optional attributes, with none, and with latitude 0. *)
LocationInputs ==
    { [id |-> "lisboa", name |-> "Lisboa", latitude |-> "38.72",
       longitude |-> "-9.14", type |-> "city", region |-> "Centro",
       district |-> "Lisboa", municipality |-> "Lisboa", metadata |-> "{v:1}"],
      [id |-> "lisboa", name |-> "Lisbon", latitude |-> Undefined,
       longitude |-> Undefined, type |-> "station", region |-> Undefined,
       district |-> Undefined, municipality |-> Undefined,
       metadata |-> Undefined],
      [id |-> "equador", name |-> "Equador", latitude |-> "0",
       longitude |-> "-9.14", type |-> "sensor", region |-> Undefined,
       district |-> "Lisboa", municipality |-> Undefined, metadata |-> "{v:2}"] }

(* x ?? null *)
OrNull(x) == IF x = Undefined THEN Null ELSE x

(* A number bound to a REAL column: D1 stores NaN as NULL *)
SqlReal(x) == IF x = "NaN" THEN Null ELSE x

(* registerLocation: the values of the insert, which are those of the
   conflict's `set` as well *)
LocationRow(loc) ==
    [ id |-> loc.id,
      name |-> loc.name,
      latitude |-> SqlReal(OrNull(loc.latitude)),
      longitude |-> SqlReal(OrNull(loc.longitude)),
      type |-> loc.type,
      region |-> OrNull(loc.region),
      district |-> OrNull(loc.district),
      municipality |-> OrNull(loc.municipality),
      metadata |-> IF loc.metadata # Undefined
                   THEN JSONstringify(loc.metadata) ELSE Null ]

\* INSERT ... ON CONFLICT (id) DO NOTHING: the first registration stays.
LocationInsertOrIgnore(table, loc) ==
    IF \E r \in table : r.id = loc.id
    THEN table
    ELSE table \cup {LocationRow(loc)}

(* LocationInput: the attributes a caller may leave out *)
OptionalAttributes ==
    {"latitude", "longitude", "region", "district", "municipality", "metadata"}

\* An upsert that merges: an attribute the caller left out keeps the value
\* stored before.
LocationUpsertMerge(table, loc) ==
    LET new == LocationRow(loc)
        merged(old) == [a \in DOMAIN new |->
                           IF a \in OptionalAttributes /\ new[a] = Null
                           THEN old[a] ELSE new[a]]
    IN IF \E r \in table : r.id = loc.id
       THEN {r \in table : r.id # loc.id}
               \cup {merged(r) : r \in {o \in table : o.id = loc.id}}
       ELSE table \cup {new}

(* INSERT INTO locations ... ON CONFLICT (id) DO UPDATE SET name, latitude,
   longitude, type, region, district, municipality, metadata *)
LocationUpsert(table, loc) ==
    {r \in table : r.id # loc.id} \cup {LocationRow(loc)}

\* Calls whose statement has not run yet.
LocPending ==
    {k \in 1..Len(locCalls.issued) :
        \A n \in 1..Len(locCalls.applied) : locCalls.applied[n] # k}

(* A handler of any source calls ctx.registerLocation(loc) *)
registerLocation(loc) ==
    /\ Len(locCalls.issued) < MaxLocCalls
    /\ locCalls' = [locCalls EXCEPT !.issued = Append(@, loc)]
    /\ UNCHANGED <<locations, pipeVars, srVars, appVars, clockVars, call, eq, docVars, rerun>>

(* D1 runs the statement of call k; calls under way at the same time are
   applied in any order *)
LocationStatement(k) ==
    /\ k \in LocPending
    /\ locations' = LocationUpsert(locations, locCalls.issued[k])
    /\ locCalls' = [locCalls EXCEPT !.applied = Append(@, k)]
    /\ UNCHANGED <<pipeVars, srVars, appVars, clockVars, call, eq, docVars, rerun>>

----------------------------------------------------------------------------
(* core/storage.ts: uploadDocument *)

MaxUploads == 2       \* uploadDocument calls over a behaviour

(* DocumentInput: name and data; two inputs may be the same in both *)
DocumentInputs == [name : {"a.pdf", "b.csv"}, data : {"%PDF-1", "%PDF-22"}]

(* `${adapterId}/${docId}/${doc.name}` *)
DocumentKey(adapterId, docId, name) == << adapterId, docId, name >>

(* head.size: the length of the stored body *)
SizeOf(data) == IF data = "%PDF-1" THEN 6 ELSE 7

(* r2.put(key, data): the object under the key is replaced *)
R2PutObject(bucket, key, data) ==
    {o \in bucket : o.key # key} \cup {[key |-> key, data |-> data]}

(* uploadDocument, up to its first await: docId = crypto.randomUUID(), a
   value no earlier call got, and r2Key *)
uploadDocument(adapterId, doc) ==
    /\ Len(uploads) < MaxUploads
    /\ LET docId == << "doc", Len(uploads) + 1 >> IN
       uploads' = Append(uploads,
                    [ adapterId |-> adapterId, doc |-> doc, docId |-> docId,
                      r2Key |-> DocumentKey(adapterId, docId, doc.name),
                      sizeBytes |-> Null, pc |-> "put" ])
    /\ UNCHANGED <<r2, documents, pipeVars, srVars, appVars, clockVars, call, eq, locVars, rerun>>

(* await r2.put(r2Key, doc.data, ...) resolves *)
R2Put(k) ==
    /\ k \in 1..Len(uploads)
    /\ uploads[k].pc = "put"
    /\ r2' = R2PutObject(r2, uploads[k].r2Key, uploads[k].doc.data)
    /\ uploads' = [uploads EXCEPT ![k].pc = "head"]
    /\ UNCHANGED <<documents, pipeVars, srVars, appVars, clockVars, call, eq, locVars, rerun>>

(* await r2.put(...) rejects: uploadDocument throws *)
R2PutFails(k) ==
    /\ k \in 1..Len(uploads)
    /\ uploads[k].pc = "put"
    /\ uploads' = [uploads EXCEPT ![k].pc = "threw"]
    /\ UNCHANGED <<r2, documents, pipeVars, srVars, appVars, clockVars, call, eq, locVars, rerun>>

(* const head = await r2.head(r2Key); sizeBytes = head?.size ?? null *)
R2Head(k) ==
    /\ k \in 1..Len(uploads)
    /\ uploads[k].pc = "head"
    /\ LET found == {o \in r2 : o.key = uploads[k].r2Key} IN
       uploads' = [uploads EXCEPT
                     ![k].sizeBytes = IF found = {} THEN Null
                                      ELSE SizeOf((CHOOSE o \in found : TRUE).data),
                     ![k].pc = "insert"]
    /\ UNCHANGED <<r2, documents, pipeVars, srVars, appVars, clockVars, call, eq, locVars, rerun>>

\* The metadata row written without waiting for the blob.
DocumentInsertEarly(k) ==
    /\ k \in 1..Len(uploads)
    /\ uploads[k].pc \in {"put", "insert"}
    /\ documents' = documents \cup
          {[ id |-> uploads[k].docId, adapterId |-> uploads[k].adapterId,
             name |-> uploads[k].doc.name, r2Key |-> uploads[k].r2Key,
             sizeBytes |-> uploads[k].sizeBytes ]}
    /\ uploads' = [uploads EXCEPT ![k].pc = "returned"]
    /\ UNCHANGED <<r2, pipeVars, srVars, appVars, clockVars, call, eq, locVars, rerun>>

(* await db.insert(documents).values({...}) resolves; return docId *)
DocumentInsert(k) ==
    /\ k \in 1..Len(uploads)
    /\ uploads[k].pc = "insert"
    /\ documents' = documents \cup
          {[ id |-> uploads[k].docId, adapterId |-> uploads[k].adapterId,
             name |-> uploads[k].doc.name, r2Key |-> uploads[k].r2Key,
             sizeBytes |-> uploads[k].sizeBytes ]}
    /\ uploads' = [uploads EXCEPT ![k].pc = "returned"]
    /\ UNCHANGED <<r2, pipeVars, srVars, appVars, clockVars, call, eq, locVars, rerun>>

(* await db.insert(documents) rejects: uploadDocument throws, the blob stays *)
DocumentInsertFails(k) ==
    /\ k \in 1..Len(uploads)
    /\ uploads[k].pc = "insert"
    /\ uploads' = [uploads EXCEPT ![k].pc = "threw"]
    /\ UNCHANGED <<r2, documents, pipeVars, srVars, appVars, clockVars, call, eq, locVars, rerun>>

----------------------------------------------------------------------------
(* A scheduled handler as the sequence of storage calls it makes, run, killed
   and run again *)

MaxCalls == 2         \* storage calls a handler makes in one run

\* Fields a call does not use.
UnusedLocation == CHOOSE loc \in LocationInputs : loc.id = "equador"

(* ctx.registerLocation(loc), ctx.storeApiData(adapterId, "reading", payload)
   and ctx.storeBatchApiData(adapterId, "reading", items) *)
HandlerCalls ==
    {[op |-> "registerLocation", loc |-> loc, payload |-> "{v:1}", items |-> << >>] :
        loc \in LocationInputs}
    \cup
    {[op |-> "storeApiData", loc |-> UnusedLocation, payload |-> payload,
      items |-> << >>] : payload \in Payloads}
    \cup
    {[op |-> "storeBatchApiData", loc |-> UnusedLocation, payload |-> "{v:1}",
      items |-> items] :
        items \in { << >>,
                    << PlainItem("{v:1}"), PlainItem("{v:1,u:undefined}") >>,
                    << PlainItem("{v:2}"), PlainItem("{v:1}") >>,
                    LongList("{v:1}", "{v:1}", "{v:2}"),
                    LongList("{v:2}", "{v:1}", "{v:1,u:undefined}") }}

HandlerScripts == UNION {[1..n -> HandlerCalls] : n \in 1..MaxCalls}

(* api_data after the next statement of call c: storeApiData's insert, or
   the db.batch of the chunk starting at item pos *)
CallApiData(table, c, clockNow, uuid, pos) ==
    IF c.op = "storeApiData"
    THEN InsertOrIgnore(table, ApiDataRow("demo", "reading", c.payload, NoLocation,
                                          clockNow, Undefined,
                                          << uuid[1], uuid[2], 0 >>))
    ELSE IF c.op = "storeBatchApiData" /\ Len(c.items) > 0
    THEN ChunkInsert(table, BatchRows("demo", "reading", c.items, clockNow, uuid),
                     pos, Min(pos + BATCH_STMT_LIMIT - 1, Len(c.items)))
    ELSE table

(* locations after the next statement of call c *)
CallLocations(table, c) ==
    IF c.op = "registerLocation" THEN LocationUpsert(table, c.loc) ELSE table

(* TRUE when call c has further chunks after the one starting at pos *)
CallContinues(c, pos) ==
    /\ c.op = "storeBatchApiData"
    /\ pos + BATCH_STMT_LIMIT - 1 < Len(c.items)

(* The handler's next statement, in the run that was killed (run 1) or in the
   run after it (run 2), against the database *)
HandlerStatement ==
    /\ rerun.pc \in {"first", "second"}
    /\ rerun.step <= Len(rerun.script)
    /\ LET c == rerun.script[rerun.step]
           run == IF rerun.pc = "first" THEN 1 ELSE 2
       IN /\ apiData' = CallApiData(apiData, c, 100 * run + rerun.step,
                                    << run, rerun.step >>, rerun.pos)
          /\ locations' = CallLocations(locations, c)
          /\ rerun' = IF CallContinues(c, rerun.pos)
                      THEN [rerun EXCEPT !.pos = @ + BATCH_STMT_LIMIT]
                      ELSE [rerun EXCEPT !.pos = 1, !.step = @ + 1]
    /\ UNCHANGED <<ingestLog, sources, jobs, now, seeded, seedPos, srVars, appVars,
                   clockVars, call, eq, locCalls, docVars>>

(* The Worker is killed during the first run: before a call, between two
   chunks of a batch, or after the last call.  The cron trigger then runs the
   same handler again from its start. *)
HandlerKilled ==
    /\ rerun.pc = "first"
    /\ rerun' = [rerun EXCEPT !.pc = "second", !.step = 1, !.pos = 1,
                              !.killedAt = << rerun.step, rerun.pos >>]
    /\ UNCHANGED <<pipeVars, srVars, appVars, clockVars, call, eq, locVars, docVars>>

(* The second run's handler returns *)
SecondRunReturns ==
    /\ rerun.pc = "second"
    /\ rerun.step > Len(rerun.script)
    /\ rerun' = [rerun EXCEPT !.pc = "single", !.step = 1, !.pos = 1]
    /\ UNCHANGED <<pipeVars, srVars, appVars, clockVars, call, eq, locVars, docVars>>

(* The same handler run once, never killed, against a database that starts
   as the other did *)
SingleStatement ==
    /\ rerun.pc = "single"
    /\ rerun.step <= Len(rerun.script)
    /\ LET c == rerun.script[rerun.step] IN
       rerun' = [rerun EXCEPT
                    !.onceApiData = CallApiData(@, c, 300 + rerun.step,
                                                << 3, rerun.step >>, rerun.pos),
                    !.onceLocations = CallLocations(@, c),
                    !.pos = IF CallContinues(c, rerun.pos)
                            THEN @ + BATCH_STMT_LIMIT ELSE 1,
                    !.step = IF CallContinues(c, rerun.pos) THEN @ ELSE @ + 1]
    /\ UNCHANGED <<pipeVars, srVars, appVars, clockVars, call, eq, locVars, docVars>>

SingleReturns ==
    /\ rerun.pc = "single"
    /\ rerun.step > Len(rerun.script)
    /\ rerun' = [rerun EXCEPT !.pc = "done"]
    /\ UNCHANGED <<pipeVars, srVars, appVars, clockVars, call, eq, locVars, docVars>>

----------------------------------------------------------------------------
(* core/registry.ts: AdapterRegistry, filled at import time *)

MaxRegisters == 3     \* register calls at startup

(* AdapterDefinition: id, name and the frequencies of its schedules.  Two
   definitions may share an id; a frequency may be none of CronFrequency. *)
AdapterDefinitions ==
    [ id : {"demo", "ipma"}, name : {"First", "Second"},
      schedules : { << "hourly" >>, << "monthly" >>,
                    << "every_5_minutes", "monthly" >> } ]

(* this.adapters.has(id) *)
has(adapters, id) == \E i \in 1..Len(adapters) : adapters[i].id = id

(* this.adapters.get(id): the definition, or undefined *)
get(adapters, id) ==
    IF has(adapters, id)
    THEN adapters[CHOOSE i \in 1..Len(adapters) : adapters[i].id = id]
    ELSE Undefined

(* this.adapters.size *)
size(adapters) == Len(adapters)

\* Map.set without the has() test: the value under the id is replaced.
registerOverwrite(adapter) ==
    /\ reg.pc = "startup"
    /\ Len(reg.calls) < MaxRegisters
    /\ reg' = [reg EXCEPT
          !.adapters = IF has(@, adapter.id)
                       THEN [i \in 1..Len(@) |->
                               IF @[i].id = adapter.id THEN adapter ELSE @[i]]
                       ELSE Append(@, adapter),
          !.calls = Append(@, [adapter |-> adapter, result |-> "returned"])]
    /\ UNCHANGED <<pipeVars, srVars, clockVars, storeVars, kv, web, sync>>

(* registry.register(adapter): throws when the id is taken, else
   this.adapters.set(adapter.id, adapter) *)
register(adapter) ==
    /\ reg.pc = "startup"
    /\ Len(reg.calls) < MaxRegisters
    /\ IF has(reg.adapters, adapter.id)
       THEN reg' = [reg EXCEPT
                      !.calls = Append(@, [adapter |-> adapter, result |-> "threw"])]
       ELSE reg' = [reg EXCEPT
                      !.adapters = Append(@, adapter),
                      !.calls = Append(@, [adapter |-> adapter, result |-> "returned"])]
    /\ UNCHANGED <<pipeVars, srVars, clockVars, storeVars, kv, web, sync>>

(* The module imports are done: the Worker starts serving *)
StartupEnds ==
    /\ reg.pc = "startup"
    /\ reg' = [reg EXCEPT !.pc = "serving"]
    /\ UNCHANGED <<pipeVars, srVars, clockVars, storeVars, kv, web, sync>>

(* handleScheduled over the registry as registered: the (id, frequency) pairs
   shouldRun lets through are added to reg.ran *)
ScheduledOver(cron, scheduledTime) ==
    /\ reg.pc = "serving"
    /\ cron \notin reg.delivered
    /\ reg' = [reg EXCEPT
          !.delivered = @ \cup {cron},
          !.ran = @ \cup
             { << reg.adapters[i].id, reg.adapters[i].schedules[n] >> :
                 <<i, n>> \in
                   { p \in (1..Len(reg.adapters)) \X (1..2) :
                       /\ p[2] <= Len(reg.adapters[p[1]].schedules)
                       /\ shouldRun(reg.adapters[p[1]].schedules[p[2]], cron,
                                    getUTCMinutes(scheduledTime),
                                    getUTCHours(scheduledTime),
                                    getUTCDay(scheduledTime)) } }]
    /\ UNCHANGED <<pipeVars, srVars, clockVars, storeVars, kv, web, sync>>

----------------------------------------------------------------------------
(* adapters/tempo/adapter.ts: sincronizarLocais, the daily handler that
   registers the IPMA locations and adds Nominatim data to their metadata *)

MaxSyncRuns == 3      \* runs of sincronizarLocais over a behaviour

(* toRegister: what the IPMA lists give on every run, in the order the
   handler pushes them: the district capitals, the coastal places (here one
   whose latitude "n/d" parses to NaN), the stations *)
toRegister ==
    << [id |-> "ipma-1110600", name |-> "Lisboa", lat |-> "38.77",
        lon |-> "-9.13", type |-> "city", metadata |-> "{globalIdLocal:1110600}"],
       [id |-> "ipma-mar-1110600", name |-> "Cascais", lat |-> "NaN",
        lon |-> "-9.42", type |-> "coastal",
        metadata |-> "{globalIdLocal:1110600}"],
       [id |-> "ipma-estacao-1210881", name |-> "Lisboa (Geofisico)",
        lat |-> "38.72", lon |-> "-9.15", type |-> "station",
        metadata |-> "{idEstacao:1210881}"] >>

(* reverseGeocode: a result with an address, or null (the request failed,
   the response was not ok) *)
GeocodeResults == {"address", "null"}

(* { ...loc.metadata, nominatim: { ... } } *)
enrichedMetadata(metadata) ==
    CASE metadata = "{idEstacao:1210881}"
            -> "{idEstacao:1210881,nominatim:{pais:Portugal}}"
      [] metadata = "{globalIdLocal:1110600}"
            -> "{globalIdLocal:1110600,nominatim:{pais:Portugal}}"

(* The filter of existingLocs: `if (!l.metadata) return false`, then
   JSON.parse(l.metadata).nominatim != null *)
HasNominatim(metadata) ==
    /\ metadata # Null
    /\ metadata \in
          { "{\"idEstacao\":1210881,\"nominatim\":{\"pais\":\"Portugal\"}}",
            "{\"globalIdLocal\":1110600,\"nominatim\":{\"pais\":\"Portugal\"}}" }

(* The LocationInput sincronizarLocais passes to ctx.registerLocation *)
SyncInput(loc, metadata) ==
    [id |-> loc.id, name |-> loc.name, latitude |-> loc.lat,
     longitude |-> loc.lon, type |-> loc.type, region |-> Undefined,
     district |-> Undefined, municipality |-> Undefined, metadata |-> metadata]

(* needEnrichment: toRegister.filter((l) => !enrichedIds.has(l.id) &&
   !isNaN(l.lat) && !isNaN(l.lon)) *)
Unenriched(l) ==
    l.id \notin sync.enrichedIds /\ l.lat # "NaN" /\ l.lon # "NaN"

needEnrichment == SelectSeq(toRegister, Unenriched)

(* The select of existingLocs and enrichedIds *)
SyncSelect ==
    /\ sync.pc = "select"
    /\ sync.run <= MaxSyncRuns
    /\ sync' = [sync EXCEPT
                   !.enrichedIds = {r.id : r \in {o \in locations :
                                                    HasNominatim(o.metadata)}},
                   !.geocoded = {},
                   !.pc = "register", !.pos = 1]
    /\ UNCHANGED <<locations, pipeVars, srVars, clockVars, call, eq, locCalls,
                   docVars, rerun, reg, kv, web>>

(* ipmaFetch of one of the lists, or the select, rejects: the handler
   rejects before it has written anything *)
SyncSelectFails ==
    /\ sync.pc = "select"
    /\ sync.run <= MaxSyncRuns
    /\ sync' = [sync EXCEPT !.run = @ + 1]
    /\ UNCHANGED <<locations, pipeVars, srVars, clockVars, call, eq, locCalls,
                   docVars, rerun, reg, kv, web>>

(* ctx.registerLocation rejects in the first loop: the handler rejects, the
   registrations made so far stay *)
SyncRegisterFails ==
    /\ sync.pc = "register"
    /\ sync' = [sync EXCEPT !.pc = "select", !.pos = 1, !.run = @ + 1]
    /\ UNCHANGED <<locations, pipeVars, srVars, clockVars, call, eq, locCalls,
                   docVars, rerun, reg, kv, web>>

(* reverseGeocode gave an address and the ctx.registerLocation with the
   enriched metadata rejects: the handler rejects *)
SyncEnrichFails ==
    /\ sync.pc = "enrich"
    /\ sync.pos <= Len(needEnrichment)
    /\ LET loc == needEnrichment[sync.pos] IN
       sync' = [sync EXCEPT !.pc = "select", !.pos = 1, !.run = @ + 1,
                            !.geocoded = @ \cup {loc.id},
                            !.calls = Append(@, << sync.run, loc.id >>)]
    /\ UNCHANGED <<locations, pipeVars, srVars, clockVars, call, eq, locCalls,
                   docVars, rerun, reg, kv, web>>

(* "Register all locations first": ctx.registerLocation for the next entry
   of toRegister, with the metadata built from the IPMA lists *)
SyncRegister ==
    /\ sync.pc = "register"
    /\ LET loc == toRegister[sync.pos] IN
       locations' = LocationUpsert(locations, SyncInput(loc, loc.metadata))
    /\ sync' = [sync EXCEPT
                   !.pos = IF sync.pos < Len(toRegister) THEN @ + 1 ELSE 1,
                   !.pc = IF sync.pos < Len(toRegister) THEN "register" ELSE "enrich"]
    /\ UNCHANGED <<pipeVars, srVars, clockVars, call, eq, locCalls, docVars,
                   rerun, reg, kv, web>>

(* The loop over needEnrichment: reverseGeocode, and with an address the
   second ctx.registerLocation, with the enriched metadata *)
SyncEnrich(result) ==
    /\ sync.pc = "enrich"
    /\ sync.pos <= Len(needEnrichment)
    /\ LET loc == needEnrichment[sync.pos] IN
       /\ locations' = IF result = "address"
                       THEN LocationUpsert(locations,
                               SyncInput(loc, enrichedMetadata(loc.metadata)))
                       ELSE locations
       /\ sync' = [sync EXCEPT !.pos = @ + 1,
                               !.geocoded = @ \cup {loc.id},
                               !.calls = Append(@, << sync.run, loc.id >>)]
    /\ UNCHANGED <<pipeVars, srVars, clockVars, call, eq, locCalls, docVars,
                   rerun, reg, kv, web>>

(* sincronizarLocais returns *)
SyncReturns ==
    /\ sync.pc = "enrich"
    /\ sync.pos > Len(needEnrichment)
    /\ sync' = [sync EXCEPT !.pc = "select", !.run = @ + 1]
    /\ UNCHANGED <<locations, pipeVars, srVars, clockVars, call, eq, locCalls,
                   docVars, rerun, reg, kv, web>>

----------------------------------------------------------------------------
(* index.ts: the seed middleware, request by request.  Requests overlap:
   each is at its seedSources call, at `await next()`, or answered.  Other
   requests, and cron deliveries, run while a seedSources call waits for D1
   or for its turn to resume, the last upsert included; its return and
   `seeded = true` follow in one step. *)

MaxRequests == 3      \* HTTP requests over a behaviour

\* A request entering the middleware; `before` is the number of seedSources
\* calls that had returned by then.
NewRequest(calls) ==
    [pc |-> IF calls THEN "seedSources" ELSE "next", pos |-> 1,
     createdAt |-> IF calls THEN now ELSE Never, applied |-> FALSE,
     before |-> web.successes, called |-> calls, result |-> "none",
     handled |-> FALSE]

\* The middleware calling seedSources whatever `seeded` holds.
WebRequestSeedAlways ==
    /\ Len(web.reqs) < MaxRequests
    /\ web' = [web EXCEPT !.reqs = Append(@, NewRequest(TRUE))]
    /\ UNCHANGED <<pipeVars, srVars, clockVars, storeVars, reg, kv, sync>>

(* app.use("*", ...): `if (!seeded)` and the call of seedSources, or
   `await next()` at once *)
WebRequest ==
    /\ Len(web.reqs) < MaxRequests
    /\ web' = [web EXCEPT !.reqs = Append(@, NewRequest(~seeded))]
    /\ UNCHANGED <<pipeVars, srVars, clockVars, storeVars, reg, kv, sync>>

(* seedSources: D1 applies the awaited upsert of an adapter of
   registry.getAll(), with the created_at read when it was built *)
WebSeedStep(r) ==
    /\ r <= Len(web.reqs)
    /\ web.reqs[r].pc = "seedSources"
    /\ ~web.reqs[r].applied
    /\ sources' = UpsertSource(sources, getAll[web.reqs[r].pos].id,
                               web.reqs[r].createdAt)
    /\ web' = [web EXCEPT !.reqs[r].applied = TRUE, !.reqs[r].createdAt = Never]
    /\ UNCHANGED <<apiData, ingestLog, jobs, now, seeded, seedPos>>
    /\ UNCHANGED <<srVars, clockVars, storeVars, reg, kv, sync>>

(* seedSources resumes after the await and builds the upsert of the next
   adapter, with createdAt: new Date() *)
WebSeedResume(r) ==
    /\ r <= Len(web.reqs)
    /\ web.reqs[r].pc = "seedSources"
    /\ web.reqs[r].applied
    /\ web.reqs[r].pos < Len(getAll)
    /\ web' = [web EXCEPT !.reqs[r].pos = @ + 1, !.reqs[r].createdAt = now,
                          !.reqs[r].applied = FALSE]
    /\ UNCHANGED <<pipeVars, srVars, clockVars, storeVars, reg, kv, sync>>

(* The last await is over: seedSources returns and the middleware sets
   seeded = true *)
WebSeedReturns(r) ==
    /\ r <= Len(web.reqs)
    /\ web.reqs[r].pc = "seedSources"
    /\ web.reqs[r].applied
    /\ web.reqs[r].pos = Len(getAll)
    /\ seeded' = TRUE
    /\ web' = [web EXCEPT !.reqs[r].pc = "next", !.reqs[r].result = "ok",
                          !.successes = @ + 1]
    /\ UNCHANGED <<apiData, ingestLog, sources, jobs, now, seedPos>>
    /\ UNCHANGED <<srVars, clockVars, storeVars, reg, kv, sync>>

(* The upsert rejects; seedSources rejects; the catch block logs and the
   middleware goes on to `await next()` with `seeded` as it was *)
WebSeedFails(r) ==
    /\ r <= Len(web.reqs)
    /\ web.reqs[r].pc = "seedSources"
    /\ ~web.reqs[r].applied
    /\ web' = [web EXCEPT !.reqs[r].pc = "next", !.reqs[r].result = "failed",
                          !.reqs[r].createdAt = Never]
    /\ UNCHANGED <<pipeVars, srVars, clockVars, storeVars, reg, kv, sync>>

(* await next(): the route handler answers the request *)
WebNext(r) ==
    /\ r <= Len(web.reqs)
    /\ web.reqs[r].pc = "next"
    /\ web' = [web EXCEPT !.reqs[r].pc = "done", !.reqs[r].handled = TRUE]
    /\ UNCHANGED <<pipeVars, srVars, clockVars, storeVars, reg, kv, sync>>

----------------------------------------------------------------------------
(* core/cache.ts: kvCache, in front of the read routes *)

MaxCacheRequests == 2     \* requests to cached routes over a behaviour

(* `${opts.prefix ?? "cache"}:${c.req.url}`, as the pair of its parts (no
   prefix of the application holds a colon) *)
CacheKey(prefix, url) == << IF prefix = Undefined THEN "cache" ELSE prefix, url >>

\* The routes asked for: prefix of the middleware instance and full URL.
CacheRoutes ==
    { << "loc", "https://api/v1/locations" >>,
      << "loc", "https://api/v1/locations?limit=1" >>,
      << Undefined, "https://api/v1/locations" >> }

CacheKeys == {CacheKey(route[1], route[2]) : route \in CacheRoutes}

(* What route handlers answer with: c.json bodies of two versions of the
   data, an error body, and a page that is not JSON *)
Responses ==
    { [status |-> 200, contentType |-> "application/json", body |-> "{v:1}"],
      [status |-> 200, contentType |-> "application/json", body |-> "{v:2}"],
      [status |-> 201, contentType |-> "application/json; charset=UTF-8",
       body |-> "{v:1}"],
      [status |-> 404, contentType |-> "application/json", body |-> "{error}"],
      [status |-> 200, contentType |-> "text/html", body |-> "<html>"],
      [status |-> 200, contentType |-> Undefined, body |-> "{v:1}"] }

(* Response.ok *)
ResOk(res) == res.status >= 200 /\ res.status <= 299

(* c.res.headers.get("content-type")?.includes("json") *)
IncludesJson(contentType) ==
    contentType \in {"application/json", "application/json; charset=UTF-8"}

\* Every response with a JSON content type is cached, whatever its status.
CacheableAnyStatus(res) == IncludesJson(res.contentType)

(* if (c.res.ok && c.res.headers.get("content-type")?.includes("json")) *)
Cacheable(res) == ResOk(res) /\ IncludesJson(res.contentType)

(* `if (cached)`: get returned a string that is not empty *)
Truthy(cached) == cached # Null /\ cached # ""

(* A request reaches a kvCache instance *)
CacheRequest(route) ==
    /\ Len(kv.reqs) < MaxCacheRequests
    /\ kv' = [kv EXCEPT !.reqs = Append(@,
                 [key |-> CacheKey(route[1], route[2]), pc |-> "get",
                  cached |-> Null, handler |-> FALSE, status |-> 0,
                  body |-> Null, put |-> FALSE])]
    /\ UNCHANGED <<pipeVars, srVars, clockVars, storeVars, reg, web, sync>>

(* const cached = await c.env.CACHE.get(key, "text"); on a hit the cached
   body is the answer, otherwise `await next()` follows *)
CacheGet(r) ==
    /\ r <= Len(kv.reqs)
    /\ kv.reqs[r].pc = "get"
    /\ LET cached == kv.store[kv.reqs[r].key] IN
       kv' = [kv EXCEPT
                 !.reqs[r].cached = cached,
                 !.reqs[r].pc = IF Truthy(cached) THEN "done" ELSE "next",
                 !.reqs[r].status = IF Truthy(cached) THEN 200 ELSE @,
                 !.reqs[r].body = IF Truthy(cached) THEN cached ELSE @]
    /\ UNCHANGED <<pipeVars, srVars, clockVars, storeVars, reg, web, sync>>

(* await next(): the handler's response, then the test for caching and
   waitUntil(CACHE.put(...)) *)
CacheNext(r, res) ==
    /\ r <= Len(kv.reqs)
    /\ kv.reqs[r].pc = "next"
    /\ kv' = [kv EXCEPT
                 !.reqs[r].handler = TRUE,
                 !.reqs[r].status = res.status,
                 !.reqs[r].body = res.body,
                 !.reqs[r].put = Cacheable(res),
                 !.reqs[r].pc = IF Cacheable(res) THEN "put" ELSE "done"]
    /\ UNCHANGED <<pipeVars, srVars, clockVars, storeVars, reg, web, sync>>

(* The put that waitUntil keeps alive reaches KV *)
CachePut(r) ==
    /\ r <= Len(kv.reqs)
    /\ kv.reqs[r].pc = "put"
    /\ kv' = [kv EXCEPT !.store[kv.reqs[r].key] = kv.reqs[r].body,
                        !.reqs[r].pc = "done"]
    /\ UNCHANGED <<pipeVars, srVars, clockVars, storeVars, reg, web, sync>>

(* The put is rejected; nothing awaits it *)
CachePutFails(r) ==
    /\ r <= Len(kv.reqs)
    /\ kv.reqs[r].pc = "put"
    /\ kv' = [kv EXCEPT !.reqs[r].pc = "done"]
    /\ UNCHANGED <<pipeVars, srVars, clockVars, storeVars, reg, web, sync>>

(* expirationTtl: KV drops the entry *)
CacheExpires(key) ==
    /\ kv.store[key] # Null
    /\ kv' = [kv EXCEPT !.store[key] = Null]
    /\ UNCHANGED <<pipeVars, srVars, clockVars, storeVars, reg, web, sync>>

----------------------------------------------------------------------------
(* Specifications *)

\* A new isolate on a new database: no request has seeded the sources yet.
PipeInit ==
    /\ apiData = {}
    /\ ingestLog = << >>
    /\ sources = << >>
    /\ jobs = << >>
    /\ now = 1
    /\ seeded = FALSE
    /\ seedPos = << >>

\* A new isolate on a database that an earlier isolate's seedSources filled.
SeededInit ==
    /\ apiData = {}
    /\ ingestLog = << >>
    /\ sources = [id \in AdapterIds |-> SourceRow(0)]
    /\ jobs = << >>
    /\ now = 1
    /\ seeded = FALSE
    /\ seedPos = << >>

Init == SeededInit /\ SrIdle /\ ClockIdle /\ StoreIdle /\ AppIdle

FreshInit == PipeInit /\ SrIdle /\ ClockIdle /\ StoreIdle /\ AppIdle

Triggers ==
    {tr \in CronTriggers \X TriggerTimes : CronFires(tr[1], tr[2])}

\* A step of job j, whose handler makes a storage call while fewer than
\* `budget` were made.
RunSteps(j, budget) ==
    \/ logIngestStart(j)
    \/ \E e \in ThrownValues : HandlerThrows(j, e)
    \/ \E e \in Rejections : HandlerRejects(j, e)
    \/ HandlerReturns(j)
    \/ /\ StoresSoFar < budget
       /\ \E in \in SchedulerInputs : storeApiData(j, in[1], in[2], in[3])
    \/ ApiDataInsert(j)
    \/ logIngestSuccess(j)
    \/ ReadLastFetchedAt(j)
    \/ UpdateSource(j)
    \/ logIngestError(j)

RunStep(j) == RunSteps(j, MaxRunStores)

FaultStep(j) ==
    \/ logIngestStartFails(j)
    \/ logIngestSuccessFails(j)
    \/ UpdateSourceFails(j)
    \/ logIngestErrorFails(j)

Seeding ==
    \/ SeedStart
    \/ \E p \in 1..MaxSeedPasses : SeedStep(p)
    \/ \E p \in 1..MaxSeedPasses : SeedResume(p)
    \/ \E p \in 1..MaxSeedPasses : SeedReturns(p)

Delivery == \E tr \in Triggers : handleScheduled(tr[1], tr[2])

\* The triggers of a scheduled time of TriggerTimes and of the minute five
\* later, when the every-minute cron alone fires and every_5_minutes alone
\* is due.
DueTriggers ==
    {tr \in CronTriggers \X (TriggerTimes \cup {t + 5 : t \in TriggerTimes}) :
        CronFires(tr[1], tr[2])}

\* The triggers of two scheduled times, each cron delivered once.
DeliveryOnce ==
    \E tr \in DueTriggers :
       /\ \A j \in JobIds : jobs[j].cron # tr[1]
       /\ handleScheduled(tr[1], tr[2])

Next == DeliveryOnce \/ (\E j \in 1..MaxJobs : RunStep(j))

NextFaults ==
    Delivery \/ (\E j \in 1..MaxJobs : RunSteps(j, MaxStores) \/ FaultStep(j))

NextSeed == Delivery \/ (\E j \in 1..MaxJobs : RunStep(j)) \/ Seeding

\* The scheduler on a seeded database that accepts every write of runAdapter,
\* for the triggers of two scheduled times.
Spec == Init /\ [][Next]_vars

\* The hourly trigger delivered once or again and again, the runs of its
\* handler one after the other or overlapping.
HourlyDelivery ==
    \E tr \in Triggers : tr[1] = HourCron /\ handleScheduled(tr[1], tr[2])

NextHourly == HourlyDelivery \/ (\E j \in 1..MaxJobs : RunSteps(j, MaxStores))

SpecHourly == Init /\ [][NextHourly]_vars

\* The scheduler on a seeded database that may reject any write of runAdapter.
SpecFaults == Init /\ [][NextFaults]_vars

\* Cron deliveries and HTTP requests, in any order, on a new database.
SpecSeed == FreshInit /\ [][NextSeed]_vars

\* runAdapter's own awaits complete; nothing is assumed of handlers.
SchedulerStep(j) ==
    \/ logIngestStart(j)
    \/ logIngestSuccess(j)
    \/ ReadLastFetchedAt(j)
    \/ UpdateSource(j)
    \/ logIngestError(j)

\* Calls made so far by the handlers, of every storage primitive.
PrimitiveCalls == StoresSoFar + Len(locCalls.issued) + Len(uploads)

\* No registerLocation or uploadDocument call is under way.
CallsSettled ==
    /\ LocPending = {}
    /\ \A k \in 1..Len(uploads) : uploads[k].pc = "returned"

\* The record, the batch, the location and the document the handlers of these
\* jobs write.
ReseedInputs == {in \in SchedulerInputs : in[2] = "{v:1}"}
ReseedBatchSizes == {n \in BatchSizes : n <= BATCH_STMT_LIMIT}
ReseedLocations == {loc \in LocationInputs : loc.id = "equador"}
ReseedDocuments == {doc \in DocumentInputs : doc.name = "a.pdf" /\ doc.data = "%PDF-1"}

\* Job j's handler, between two awaits, with room for one more storage call.
MayCall(j) ==
    /\ j \in JobIds
    /\ jobs[j].pc = "handler"
    /\ CallsSettled
    /\ PrimitiveCalls < MaxRunStores

\* A job whose handler calls the storage primitives, awaiting each of them,
\* and returns.
ReseedStep(j) ==
    \/ logIngestStart(j)
    \/ CallsSettled /\ HandlerReturns(j)
    \/ logIngestSuccess(j)
    \/ ReadLastFetchedAt(j)
    \/ UpdateSource(j)
    \/ MayCall(j) /\ \E in \in ReseedInputs : storeApiData(j, in[1], in[2], in[3])
    \/ ApiDataInsert(j)
    \/ MayCall(j) /\ \E n \in ReseedBatchSizes : storeBatchApiData(j, "reading", n)
    \/ BatchChunk(j)
    \/ MayCall(j) /\ \E loc \in ReseedLocations : registerLocation(loc)
    \/ MayCall(j) /\ \E doc \in ReseedDocuments : uploadDocument(jobs[j].adapterId, doc)

\* D1 and R2 serve the calls of registerLocation and uploadDocument.
ReseedWrite ==
    \/ \E k \in 1..MaxLocCalls : LocationStatement(k)
    \/ \E k \in 1..MaxUploads : R2Put(k)
    \/ \E k \in 1..MaxUploads : R2Head(k)
    \/ \E k \in 1..MaxUploads : DocumentInsert(k)

\* The hourly trigger, delivered when the jobs of the one before are over.
ReseedDelivery ==
    /\ \A j \in JobIds : jobs[j].pc = "done"
    /\ HourlyDelivery

NextReseed ==
    \/ ReseedDelivery
    \/ \E j \in 1..MaxJobs : ReseedStep(j)
    \/ ReseedWrite
    \/ Seeding
    \/ NewIsolate

\* Hourly jobs, whose handlers call every storage primitive, beside requests
\* that seed the sources table, isolate after isolate.
SpecReseed == Init /\ [][NextReseed]_vars

\* runAdapter around a handler that makes no storage call: the handler call
\* ends in one of its three outcomes, and each write of runAdapter is accepted
\* or rejected.
OutcomeStep(j) ==
    \/ SchedulerStep(j)
    \/ \E e \in ThrownValues : HandlerThrows(j, e)
    \/ \E e \in Rejections : HandlerRejects(j, e)
    \/ HandlerReturns(j)

FairNext ==
    Delivery \/ (\E j \in 1..MaxJobs : OutcomeStep(j) \/ FaultStep(j))

\* ctx.waitUntil keeps the invocation alive until each runAdapter promise
\* settles, and D1 answers every statement, accepting or rejecting it: a
\* continuation of runAdapter that can run does run.
FairSpec ==
    /\ Init /\ [][FairNext]_vars
    /\ \A j \in 1..MaxJobs : WF_vars(SchedulerStep(j) \/ FaultStep(j))

\* Handlers that are running and call the record-writing primitives, in any
\* interleaving.
StoreStep(j) ==
    \/ logIngestStart(j)
    \/ \E in \in StoreInputs : storeApiData(j, in[1], in[2], in[3])
    \/ ApiDataInsert(j)
    \/ \E n \in BatchSizes : storeBatchApiData(j, "reading", n)
    \/ BatchChunk(j)

StoreNext == Delivery \/ (\E j \in 1..MaxJobs : StoreStep(j))

SpecStore == Init /\ [][StoreNext]_vars

\* Handlers submitting batches whose db.batch calls may fail, for good or
\* with an error withRetry retries, and isolates that may be evicted during a
\* batch.
ChunkStep(j) ==
    \/ logIngestStart(j)
    \/ \E n \in BatchSizes : storeBatchApiData(j, "reading", n)
    \/ BatchChunk(j)
    \/ \E e \in D1Errors : BatchChunkFails(j, e)
    \/ \E e \in D1Errors : BatchChunkRetry(j, e)
    \/ BatchKilled(j)

\* The every-minute trigger fires: the handlers of one source, run side by
\* side, write the same keys.
ChunkDelivery ==
    \E tr \in Triggers : tr[1] = MinuteCron /\ handleScheduled(tr[1], tr[2])

ChunkNext == ChunkDelivery \/ (\E j \in 1..MaxJobs : ChunkStep(j))

SpecChunks == Init /\ [][ChunkNext]_vars

SrInit == PipeInit /\ ClockIdle /\ StoreIdle /\ AppIdle /\ srIn \in SrInputs
          /\ srOut = [called |-> FALSE, result |-> FALSE]

SrNext == CallShouldRun

SpecShouldRun == SrInit /\ [][SrNext]_vars

CronInit == PipeInit /\ SrIdle /\ ClockInit /\ StoreIdle /\ AppIdle

CronNext == (\E c \in CronTriggers : Deliver(c)) \/ Tick

SpecCron == CronInit /\ [][CronNext]_vars

\* One database write of the storage layer, for every write and every
\* sequence of attempt outcomes.
WritesInit ==
    /\ PipeInit /\ SrIdle /\ ClockIdle
    /\ eq = NoEq
    /\ locations = {} /\ locCalls = NoLocCalls
    /\ r2 = {} /\ documents = {} /\ uploads = << >>
    /\ rerun = NoRerun /\ AppIdle
    /\ \E op \in WriteOps, script \in Scripts :
          call = [op |-> op, script |-> script, pc |-> "attempt", attempt |-> 0,
                  calls |-> 0, waits |-> << >>,
                  error |-> [kind |-> "none", text |-> << >>, thrownBy |-> 0]]

WritesNext == WithRetryAttempt \/ WithRetryWake \/ DirectWrite

SpecWrites == WritesInit /\ [][WritesNext]_vars

\* storeBatchApiData and a sequence of storeApiData calls on the same list,
\* from the same table and the same clock reading.
EqInit ==
    /\ PipeInit /\ SrIdle /\ ClockIdle
    /\ call = NoCall
    /\ locations = {} /\ locCalls = NoLocCalls
    /\ r2 = {} /\ documents = {} /\ uploads = << >>
    /\ rerun = NoRerun /\ AppIdle
    /\ \E items \in ItemLists, start \in StartTables, tick \in {0, 1} :
          eq = [pc |-> "batch", items |-> items, tick |-> tick, t0 |-> 100,
                pos |-> 1, batch |-> start, seq |-> start, ids |-> << >>]

EqNext == EqBatchChunk \/ EqStore \/ EqEnd

SpecBatchEq == EqInit /\ [][EqNext]_vars

\* Two items of equal payload text and freely chosen options, stored by
\* storeBatchApiData and by storeApiData from the same table.
DedupInit ==
    /\ PipeInit /\ SrIdle /\ ClockIdle
    /\ call = NoCall
    /\ locations = {} /\ locCalls = NoLocCalls
    /\ r2 = {} /\ documents = {} /\ uploads = << >>
    /\ rerun = NoRerun /\ AppIdle
    /\ \E items \in [1..2 -> TaggedItems], start \in StartTables, tick \in {0, 1} :
          eq = [pc |-> "batch", items |-> items, tick |-> tick, t0 |-> 100,
                pos |-> 1, batch |-> start, seq |-> start, ids |-> << >>]

SpecDedup == DedupInit /\ [][EqNext]_vars

\* One storeBatchApiData call, for every list and every sequence of db.batch
\* outcomes, from an empty table and from one holding a row of the list.
RetryBatchInit ==
    /\ PipeInit /\ SrIdle /\ ClockIdle
    /\ eq = NoEq
    /\ locations = {} /\ locCalls = NoLocCalls
    /\ r2 = {} /\ documents = {} /\ uploads = << >>
    /\ rerun = NoRerun /\ AppIdle
    /\ \E items \in RetryLists, start \in StartTables,
          script \in [1..(MAX_RETRIES * 2) -> BatchOutcomes] :
          call = [op |-> "retryBatch", items |-> items, script |-> script,
                  t0 |-> 100, start |-> start, table |-> start,
                  pc |-> "attempt", attempt |-> 0, pos |-> 1, calls |-> 0,
                  submitted |-> << >>, out |-> << >>]

RetryBatchNext == BatchSubmit \/ BatchRetry

SpecRetryBatch == RetryBatchInit /\ [][RetryBatchNext]_vars

\* Runs of sincronizarLocais one after another, on a locations table that is
\* empty at first.
SyncInit ==
    /\ PipeInit /\ SrIdle /\ ClockIdle /\ StoreIdle
    /\ reg = NoReg /\ kv = NoKv /\ web = NoWeb
    /\ sync = [pc |-> "select", run |-> 1, pos |-> 1, enrichedIds |-> {},
               geocoded |-> {}, calls |-> << >>]

SyncNext ==
    \/ SyncSelect
    \/ SyncSelectFails
    \/ SyncRegister
    \/ SyncRegisterFails
    \/ \E result \in GeocodeResults : SyncEnrich(result)
    \/ SyncEnrichFails
    \/ SyncReturns

SpecSync == SyncInit /\ [][SyncNext]_vars

\* The HTTP requests one isolate serves, on a database without sources rows.
WebInit ==
    /\ PipeInit /\ SrIdle /\ ClockIdle /\ StoreIdle
    /\ reg = NoReg /\ kv = NoKv /\ sync = NoSync
    /\ web = [reqs |-> << >>, successes |-> 0]

\* Requests beside deliveries of the hourly trigger, whose jobs wait for D1.
WebNextStep ==
    \/ WebRequest
    \/ HourlyDelivery
    \/ \E r \in 1..MaxRequests : WebSeedStep(r)
    \/ \E r \in 1..MaxRequests : WebSeedResume(r)
    \/ \E r \in 1..MaxRequests : WebSeedReturns(r)
    \/ \E r \in 1..MaxRequests : WebSeedFails(r)
    \/ \E r \in 1..MaxRequests : WebNext(r)

SpecWeb == WebInit /\ [][WebNextStep]_vars

\* Requests to cached routes, on an empty KV namespace.
CacheInit ==
    /\ PipeInit /\ SrIdle /\ ClockIdle /\ StoreIdle
    /\ reg = NoReg /\ web = NoWeb /\ sync = NoSync
    /\ kv = [store |-> [k \in CacheKeys |-> Null], reqs |-> << >>]

CacheStep ==
    \/ \E route \in CacheRoutes : CacheRequest(route)
    \/ \E r \in 1..MaxCacheRequests : CacheGet(r)
    \/ \E r \in 1..MaxCacheRequests, res \in Responses : CacheNext(r, res)
    \/ \E r \in 1..MaxCacheRequests : CachePut(r)
    \/ \E r \in 1..MaxCacheRequests : CachePutFails(r)
    \/ \E key \in CacheKeys : CacheExpires(key)

SpecCache == CacheInit /\ [][CacheStep]_vars

\* Handlers of any source registering locations concurrently.
LocNext ==
    \/ \E loc \in LocationInputs : registerLocation(loc)
    \/ \E k \in 1..MaxLocCalls : LocationStatement(k)

SpecLocations == Init /\ [][LocNext]_vars

\* Handlers uploading documents, their awaits interleaved.
DocsNext ==
    \/ \E a \in AdapterIds, doc \in DocumentInputs : uploadDocument(a, doc)
    \/ \E k \in 1..MaxUploads :
          \/ R2Put(k)
          \/ R2PutFails(k)
          \/ R2Head(k)
          \/ DocumentInsert(k)
          \/ DocumentInsertFails(k)

SpecDocuments == Init /\ [][DocsNext]_vars

\* A handler killed in its first run and run again, beside one run of the
\* same handler that is never killed.  Both databases start alike: empty, or
\* with a reading and a location from an earlier run.
RerunInit ==
    /\ SrIdle /\ ClockIdle
    /\ ingestLog = << >> /\ sources = [id \in AdapterIds |-> SourceRow(0)]
    /\ jobs = << >> /\ now = 1 /\ seeded = FALSE /\ seedPos = << >>
    /\ call = NoCall /\ eq = NoEq /\ locCalls = NoLocCalls
    /\ r2 = {} /\ documents = {} /\ uploads = << >>
    /\ AppIdle
    /\ \E script \in HandlerScripts, start \in StartTables,
          startLocations \in {{}, {LocationRow(UnusedLocation)}} :
          /\ apiData = start
          /\ locations = startLocations
          /\ rerun = [pc |-> "first", script |-> script, step |-> 1, pos |-> 1,
                      killedAt |-> << 0, 0 >>,
                      onceApiData |-> start, onceLocations |-> startLocations]

RerunNext ==
    \/ HandlerStatement
    \/ HandlerKilled
    \/ SecondRunReturns
    \/ SingleStatement
    \/ SingleReturns

SpecRerun == RerunInit /\ [][RerunNext]_vars

\* The registry from empty: register calls at import time, then the three
\* triggers of Sunday 00:00, when every frequency of CronFrequency is due.
RegistryInit ==
    /\ PipeInit /\ SrIdle /\ ClockIdle /\ StoreIdle
    /\ kv = NoKv /\ web = NoWeb /\ sync = NoSync
    /\ reg = [pc |-> "startup", adapters |-> << >>, calls |-> << >>,
              delivered |-> {}, ran |-> {}]

RegistryNext ==
    \/ \E adapter \in AdapterDefinitions : register(adapter)
    \/ StartupEnds
    \/ \E cron \in CronTriggers : ScheduledOver(cron, 0)

SpecRegistry == RegistryInit /\ [][RegistryNext]_vars

----------------------------------------------------------------------------
(* Properties *)

Raised == {"threw", "rejected"}

\* The ingest_log row of job j, once logIngestStart has written it.
HasRow(j) == jobs[j].logId > 0
RowOf(j) == ingestLog[jobs[j].logId]

\* The rows of api_data that hold what a storeApiData call wrote or met.
RowsFor(adapterId, op) ==
    {r \in apiData : /\ r.apiSource = adapterId
                     /\ r.payloadType = op.payloadType
                     /\ r.payload = JSONstringify(op.payload)}

\* C1: api_data never holds two rows with the same (api_source, payload_type,
\* content_hash), whatever storeApiData and storeBatchApiData calls the
\* running handlers interleave; a storeApiData call that meets its triple is
\* reported as skipped, adds no row and raises nothing, and one that does not
\* adds exactly one row.
C1_UniqueTriple ==
    /\ \A ra, rb \in apiData : DedupKey(ra) = DedupKey(rb) => ra = rb
    /\ \A j \in JobIds : \A k \in 1..Len(jobs[j].ops) :
         LET op == jobs[j].ops[k] IN
         op.kind = "store" =>
            /\ op.result \in {"inserted", "ignored"}
            /\ op.result = "ignored" => op.added = 0
            /\ op.result = "inserted" => op.added = 1
            /\ Cardinality(RowsFor(jobs[j].adapterId, op)) = 1

C1_Witness ==
    \E j1, j2 \in JobIds :
       /\ j1 # j2
       /\ \E k \in 1..Len(jobs[j1].ops) :
             jobs[j1].ops[k].kind = "batch" /\ jobs[j1].ops[k].size > BATCH_STMT_LIMIT
       /\ \E k \in 1..Len(jobs[j2].ops) :
             jobs[j2].ops[k].kind = "store" /\ jobs[j2].ops[k].result = "ignored"

\* C2: an ingest_log row is created 'running', and a row whose status is
\* 'success' or 'error' keeps that status in every later step, also when
\* writes of runAdapter fail.
C2_FinalizedOnce ==
    [][ /\ \A i \in 1..Len(ingestLog) :
             ingestLog[i].status \in Terminal
                => ingestLog'[i].status = ingestLog[i].status
        /\ \A i \in (Len(ingestLog) + 1)..Len(ingestLog') :
             ingestLog'[i].status = "running" ]_vars

\* C3: once the handler call of a dispatched job has finished (resolved,
\* rejected, or thrown synchronously), the job's ingest_log row eventually
\* has status 'success' or 'error': no row stays 'running' for ever, whatever
\* D1 answers to the writes of runAdapter.
C3_EventuallyTerminal ==
    \A j \in 1..MaxJobs :
       (j \in JobIds /\ jobs[j].outcome # "pending")
          ~> (j \in JobIds /\ HasRow(j) /\ RowOf(j).status \in Terminal)

\* C4: a job whose handler threw or rejected is caught inside runAdapter (its
\* promise does not reject, so nothing reaches handleScheduled or waitUntil),
\* and every other job can still take its next step and, when done, has its
\* own ingest_log row with the status of its own outcome and its own stored
\* records in api_data.
C4_FailureIsolation ==
    \A j \in JobIds :
       jobs[j].outcome \in Raised =>
          /\ jobs[j].pc \in {"catch", "done"}
          /\ \A k \in JobIds \ {j} :
                /\ jobs[k].pc # "unhandled"
                /\ jobs[k].pc # "done" => ENABLED RunStep(k)
                /\ jobs[k].pc = "done" =>
                      /\ HasRow(k) /\ jobs[k].logId # jobs[j].logId
                      /\ RowOf(k).adapterId = jobs[k].adapterId
                      /\ RowOf(k).status =
                            (IF jobs[k].outcome = "returned" THEN "success"
                                                             ELSE "error")
                      /\ \A n \in 1..Len(jobs[k].ops) :
                            RowsFor(jobs[k].adapterId, jobs[k].ops[n]) # {}

C4_Witness ==
    \E j, k \in JobIds :
       /\ j # k
       /\ jobs[j].invocation = jobs[k].invocation
       /\ jobs[j].outcome \in Raised /\ jobs[j].pc = "done"
       /\ jobs[k].outcome = "returned" /\ jobs[k].pc = "done"
       /\ jobs[k].ops # << >>
       /\ RowOf(j).status = "error" /\ RowOf(k).status = "success"

\* C5: a job whose handler returned normally has its ingest_log row
\* 'success', and the step that ends the job writes the time that run read
\* into the last_fetched_at of its source's row, in every order of cron
\* deliveries and HTTP requests.
C5_SuccessUpdatesSource ==
    [][ \A j \in JobIds :
          (jobs[j].outcome = "returned" /\ jobs[j].pc = "updateSource"
              /\ jobs'[j].pc = "done") =>
             /\ RowOf(j).status = "success"
             /\ jobs[j].fetchedAt >= jobs[j].invocation
             /\ jobs[j].adapterId \in DOMAIN sources'
             /\ sources'[jobs[j].adapterId].lastFetchedAt = jobs[j].fetchedAt ]_vars

\* C6, the state after a job whose handler stored a record and then raised:
\* the record's row is in api_data, and the job's ingest_log row is 'error'
\* with the message of the raised value.
C6_AfterFailedJob ==
    \A j \in JobIds :
       (jobs[j].outcome \in Raised /\ jobs[j].pc = "done") =>
          /\ \A n \in 1..Len(jobs[j].ops) :
                RowsFor(jobs[j].adapterId, jobs[j].ops[n]) # {}
          /\ RowOf(j).status = "error"
          /\ RowOf(j).error = ErrMessage(jobs[j].err)

\* C6: when a handler stores a record and then raises, the record stays in
\* api_data, the job's ingest_log row ends 'error' with the raised error's
\* message, and no step of that job, from its start to its end, changes the
\* sources table (last_fetched_at stays what it was before the job).
C6_StoreThenRaise ==
    [][ /\ C6_AfterFailedJob'
        /\ \A j \in JobIds :
              (jobs'[j].outcome # "returned" /\ jobs'[j] # jobs[j])
                 => sources' = sources ]_vars

C6_Witness ==
    \E j \in JobIds :
       /\ jobs[j].outcome = "rejected" /\ jobs[j].pc = "done"
       /\ Len(jobs[j].ops) = 1 /\ jobs[j].ops[1].result = "inserted"
       /\ RowsFor(jobs[j].adapterId, jobs[j].ops[1]) # {}
       /\ RowOf(j).status = "error" /\ RowOf(j).error = "HTTP 503"
       /\ sources[jobs[j].adapterId].lastFetchedAt = Never

\* Jobs j and k come from two deliveries of the same trigger for the same
\* schedule, and both handlers stored the same single payload and returned.
SameTriggerTwice(j, k) ==
    /\ jobs[j].pc = "done" /\ jobs[k].pc = "done"
    /\ jobs[j].outcome = "returned" /\ jobs[k].outcome = "returned"
    /\ jobs[j].invocation # jobs[k].invocation
    /\ jobs[j].adapterId = jobs[k].adapterId
    /\ jobs[j].schedule = jobs[k].schedule
    /\ jobs[j].cron = jobs[k].cron
    /\ jobs[j].scheduledTime = jobs[k].scheduledTime
    /\ Len(jobs[j].ops) = 1 /\ Len(jobs[k].ops) = 1
    /\ jobs[j].ops[1].payloadType = jobs[k].ops[1].payloadType
    /\ jobs[j].ops[1].payload = jobs[k].ops[1].payload

\* C7: when the same trigger is delivered twice, one after the other or
\* overlapping, and the handler stores the identical payload both times,
\* api_data ends with exactly one row for that payload and ingest_log with
\* two rows of these jobs, both 'success'.
C7_DuplicateDelivery ==
    \A j, k \in JobIds :
       (j < k /\ SameTriggerTwice(j, k)) =>
          /\ Cardinality(RowsFor(jobs[j].adapterId, jobs[j].ops[1])) = 1
          /\ jobs[j].logId # jobs[k].logId
          /\ RowOf(j).status = "success" /\ RowOf(k).status = "success"
          /\ Cardinality({i \in 1..Len(ingestLog) :
                            ingestLog[i].adapterId = jobs[j].adapterId}) >= 2

C7_Witness ==
    \E j, k \in JobIds :
       /\ j < k /\ SameTriggerTwice(j, k)
       /\ jobs[k].ops[1].result = "ignored"
       /\ Len(ingestLog) = 2
       /\ Cardinality(apiData) = 1

(* README "Agendamento Cron": the cron trigger of each frequency *)
Bucket(frequency) ==
    CASE frequency \in {"every_minute", "every_5_minutes", "every_15_minutes"}
           -> MinuteCron
      [] frequency \in {"hourly", "every_6_hours"} -> HourCron
      [] frequency \in {"daily", "weekly"} -> DayCron

(* README "Agendamento Cron": when each frequency runs within its trigger *)
Finer(frequency, minute, hour, dayOfWeek) ==
    CASE frequency = "every_5_minutes" -> minute % 5 = 0
      [] frequency = "every_15_minutes" -> minute % 15 = 0
      [] frequency = "every_6_hours" -> hour % 6 = 0
      [] frequency = "weekly" -> dayOfWeek = 0
      [] OTHER -> TRUE

\* C8: for each of the seven frequencies, any cron identifier and any
\* (minute, hour, dayOfWeek), shouldRun is true exactly when the identifier
\* is the frequency's bucket and the finer condition holds; another cron
\* identifier runs nothing.
C8_ShouldRunTable ==
    (srOut.called /\ srIn.frequency \in CronFrequency) =>
       /\ srOut.result =
            (/\ srIn.cron = Bucket(srIn.frequency)
             /\ Finer(srIn.frequency, srIn.minute, srIn.hour, srIn.dayOfWeek))
       /\ srIn.cron \notin CronTriggers => srOut.result = FALSE

C8_Witness ==
    /\ srOut.called /\ srOut.result
    /\ srIn.frequency = "every_15_minutes"
    /\ srIn.cron = MinuteCron /\ srIn.minute = 45

(* _template/README "Frequencias de Agendamento": minutes between two runs *)
Period(frequency) ==
    CASE frequency = "every_minute" -> 1
      [] frequency = "every_5_minutes" -> 5
      [] frequency = "every_15_minutes" -> 15
      [] frequency = "hourly" -> 60
      [] frequency = "every_6_hours" -> 360
      [] frequency = "daily" -> 1440
      [] frequency = "weekly" -> MinutesPerWeek

SundayMidnight(t) ==
    getUTCDay(t) = 0 /\ getUTCHours(t) = 0 /\ getUTCMinutes(t) = 0

\* C9: with each cron delivered once per firing time, a schedule is
\* dispatched at most once at any minute and never sooner after its last
\* dispatch than its frequency's period; at 00:00 UTC on Sunday, once the
\* three crons are delivered, each schedule has been dispatched exactly once.
C9_NeverTooOften ==
    \A f \in CronFrequency :
       /\ fired[f] <= 1
       /\ (fired[f] = 1 /\ lastFired[f] # Never)
             => clock - lastFired[f] >= Period(f)
       /\ (SundayMidnight(clock) /\ pending = {}) => fired[f] = 1

C9_Witness ==
    /\ SundayMidnight(clock) /\ pending = {}
    /\ \A f \in CronFrequency : fired[f] = 1 /\ lastFired[f] # Never
    /\ clock - lastFired["weekly"] = MinutesPerWeek

\* C10: each of the seven frequencies has a (cron identifier, minute, hour,
\* dayOfWeek) for which shouldRun is true, and the crons delivered over one
\* week dispatch each of them.
C10_NoOrphanedFrequency ==
    /\ \A f \in CronFrequency :
          \E d \in 0..6, h \in 0..23, m \in 0..59 :
             \E c \in CronTriggers \cup OtherCrons : shouldRun(f, c, m, h, d)
    /\ clock >= MinutesPerWeek =>
          \A f \in CronFrequency : lastFired[f] # Never

C10_Witness ==
    /\ clock = MinutesPerWeek
    /\ \A f \in CronFrequency : lastFired[f] # Never

\* The storeApiData calls made so far, as <<job, position in the job's calls>>.
StoreCalls ==
    {c \in JobIds \X (1..MaxStores) :
        c[2] <= Len(jobs[c[1]].ops) /\ jobs[c[1]].ops[c[2]].kind = "store"}

CallOp(c) == jobs[c[1]].ops[c[2]]

\* C11: two storeApiData calls with the same source id and payload type leave
\* exactly one row when their serialized payloads are byte-identical, and two
\* rows when the serialized payloads differ.
C11_StoreIdempotent ==
    \A c1, c2 \in StoreCalls :
       (/\ c1 # c2
        /\ jobs[c1[1]].adapterId = jobs[c2[1]].adapterId
        /\ CallOp(c1).payloadType = CallOp(c2).payloadType) =>
          LET rows == RowsFor(jobs[c1[1]].adapterId, CallOp(c1))
                         \cup RowsFor(jobs[c2[1]].adapterId, CallOp(c2))
          IN Cardinality(rows) =
                (IF JSONstringify(CallOp(c1).payload) = JSONstringify(CallOp(c2).payload)
                 THEN 1 ELSE 2)

C11_Witness ==
    \E c1, c2 \in StoreCalls :
       /\ c1[1] = c2[1] /\ c1[2] < c2[2]
       /\ CallOp(c1).payloadType = CallOp(c2).payloadType
       /\ CallOp(c1).payload = "{v:1}" /\ CallOp(c2).payload = "{v:2}"
       /\ CallOp(c1).result = "inserted" /\ CallOp(c2).result = "inserted"
       /\ Cardinality(apiData) = 2

\* The columns of a row that its call's arguments and the clock decide.
Columns(r) ==
    << r.apiSource, r.payloadType, r.contentHash, r.payload, r.locationId,
       r.timestamp >>

ColumnsNoTime(r) ==
    << r.apiSource, r.payloadType, r.contentHash, r.payload, r.locationId >>

\* C12 as stated: storeBatchApiData with N items ends with the same set of
\* (source, payload type, content hash, payload, location, timestamp) rows as
\* N storeApiData calls with the same arguments in the same order.
C12_BatchEquivalence ==
    eq.pc = "done" =>
       {Columns(r) : r \in eq.batch} = {Columns(r) : r \in eq.seq}

\* C12 amended: the two end with the same set of (source, payload type,
\* content hash, payload, location) rows, whatever items repeat in the list
\* or are stored already and however many chunks the list takes; the
\* timestamps agree as well when every item carries options.timestamp.
C12_BatchEquivalenceNoClock ==
    eq.pc = "done" =>
       /\ {ColumnsNoTime(r) : r \in eq.batch} = {ColumnsNoTime(r) : r \in eq.seq}
       /\ (\A i \in 1..Len(eq.items) : eq.items[i].timestamp # Never) =>
             {Columns(r) : r \in eq.batch} = {Columns(r) : r \in eq.seq}

C12_Witness ==
    /\ eq.pc = "done"
    /\ Len(eq.items) > BATCH_STMT_LIMIT
    /\ eq.items[1].payload = eq.items[BATCH_STMT_LIMIT + 1].payload
    /\ eq.items[2].payload = "{v:2}"
    /\ eq.batch # {} /\ Cardinality(eq.batch) = 2
    /\ eq.tick = 1
    /\ {Columns(r) : r \in eq.batch} # {Columns(r) : r \in eq.seq}

\* The rows of api_data written by the batch job j has under way (or that was
\* stopped), as the positions of their items in the batch.
BatchRowsOf(j) ==
    {r.id[5][3] : r \in {x \in apiData : /\ x.id[5][1] = j
                                         /\ x.id[5][2] = Len(jobs[j].ops) + 1}}

\* C13: storeBatchApiData submits its items in order in chunks of at most
\* BATCH_STMT_LIMIT statements, each chunk written as a whole or not at all:
\* at any point of a batch, and after a db.batch call failed for good or the
\* isolate was evicted, the next chunk starts at a multiple of the limit, the
\* payload of every item before it is stored, and no row of an item of that
\* chunk or a later one is.
C13_ChunkAtomic ==
    \A j \in JobIds :
       jobs[j].pc \in {"batch", "failed", "killed"} =>
          LET b == jobs[j].batch IN
          /\ (b.pos - 1) % BATCH_STMT_LIMIT = 0
          /\ b.pos <= b.size
          /\ \A i \in 1..(b.pos - 1) :
                << jobs[j].adapterId, b.payloadType, sha256(JSONstringify(BatchItem(i))) >>
                   \in Keys(apiData)
          /\ \A i \in BatchRowsOf(j) : i < b.pos

\* C13, with withRetry's passes told apart: chunks start at multiples of the
\* limit and are written as a whole or not at all; at any point of a batch,
\* and after a db.batch call failed for good or the isolate was evicted at
\* chunk k, the payload of every item before k is stored; in the first pass
\* of the call no row of chunk k or a later one is, and after a retried
\* failure the rows of chunk k or later are those of the whole chunks an
\* earlier pass of the same call wrote (`high` is the start of the first chunk
\* no pass has written).
C13_ChunkAtomicPerPass ==
    \A j \in JobIds :
       jobs[j].pc \in {"batch", "failed", "killed"} =>
          LET b == jobs[j].batch IN
          /\ (b.pos - 1) % BATCH_STMT_LIMIT = 0
          /\ (b.high - 1) % BATCH_STMT_LIMIT = 0
          /\ b.pos <= b.high /\ b.high <= b.size
          /\ b.attempt \in 0..(MAX_RETRIES - 1)
          /\ b.attempt = 0 => b.high = b.pos
          /\ \A i \in 1..(b.high - 1) :
                << jobs[j].adapterId, b.payloadType, sha256(JSONstringify(BatchItem(i))) >>
                   \in Keys(apiData)
          /\ \A i \in BatchRowsOf(j) : i < b.high

\* A 51-item batch whose first pass wrote chunk 1 and met a transient error
\* at chunk 2, and whose second pass failed for good at chunk 1.
C13_Witness ==
    \E j \in JobIds :
       /\ jobs[j].pc = "failed"
       /\ jobs[j].batch.size = BATCH_STMT_LIMIT + 1
       /\ jobs[j].batch.attempt = 1
       /\ jobs[j].batch.pos = 1
       /\ jobs[j].batch.high = BATCH_STMT_LIMIT + 1
       /\ BatchRowsOf(j) = {1}
       /\ Cardinality(apiData) = 1

\* The attempts of a script that fail with an error of the allow-list.
Retried(script) ==
    {i \in 1..(MAX_RETRIES + 1) :
        script[i] # Ok /\ isTransient(MessageOf(script[i]))}

\* C14: withRetry calls the wrapped write at most 3 times; it returns at the
\* first attempt that succeeds, throws at the first attempt that fails with a
\* non-transient error, and otherwise throws when the third attempt fails;
\* every attempt before the last failed with a transient error, and the
\* error thrown to the caller is the one the last attempt threw, unchanged.
C14_WithRetryAttempts ==
    UsesWithRetry(call.op) =>
       /\ call.calls <= MAX_RETRIES
       /\ \A i \in 1..(call.calls - 1) : i \in Retried(call.script)
       /\ call.pc = "returned" => call.script[call.calls] = Ok
       /\ call.pc = "threw" =>
             /\ call.script[call.calls] # Ok
             /\ call.calls \notin Retried(call.script) \/ call.calls = MAX_RETRIES
             /\ call.error.thrownBy = call.calls
             /\ call.error.kind = call.script[call.calls].kind
             /\ call.error.text = call.script[call.calls].text
       /\ call.pc = "attempt" =>
             /\ call.calls = call.attempt
             /\ call.calls < MAX_RETRIES

C14_Witness ==
    /\ UsesWithRetry(call.op)
    /\ call.pc = "threw"
    /\ call.calls = MAX_RETRIES
    /\ call.error.thrownBy = MAX_RETRIES
    /\ call.script[1] # call.script[MAX_RETRIES]
    /\ call.script[MAX_RETRIES + 1] = Ok

\* C15: for every database write of the storage layer (location upsert,
\* record insert, batch insert, uploadDocument's metadata insert,
\* logIngestStart, logIngestSuccess, logIngestError), one transient backend
\* error followed by a success does not reach the caller: the write is tried
\* again.
C15_RetryCoversEveryWrite ==
    (/\ call.op \in WriteOps
     /\ 1 \in Retried(call.script)
     /\ call.script[2] = Ok) => call.pc # "threw"

\* C16: withRetry waits 200 ms before the second attempt and 400 ms before
\* the third, one wait after each failed attempt that is retried and none
\* after an attempt that succeeds or whose error is thrown to the caller.
C16_BackoffDoubles ==
    UsesWithRetry(call.op) =>
       /\ Len(call.waits) <= MAX_RETRIES - 1
       /\ Len(call.waits) >= 1 => call.waits[1] = 200
       /\ Len(call.waits) >= 2 => call.waits[2] = 400
       /\ \A n \in 1..Len(call.waits) :
             /\ n \in Retried(call.script)
             /\ call.waits[n] = 200 * 2 ^ (n - 1)
       /\ call.pc \in {"wait", "attempt"} => Len(call.waits) = call.calls
       /\ call.pc \in {"returned", "threw"} => Len(call.waits) = call.calls - 1

C16_Witness ==
    /\ UsesWithRetry(call.op)
    /\ call.pc = "returned"
    /\ call.calls = MAX_RETRIES
    /\ call.waits = << 200, 400 >>

\* C17: the id a storeApiData call returned is the id of a row of api_data:
\* the row it inserted, or the row already there when the insert was skipped
\* as a duplicate.
C17_ReturnedIdIsStored ==
    \A n \in 1..Len(eq.ids) :
       \E r \in eq.seq :
          /\ r.id = eq.ids[n]
          /\ DedupKey(r) = << "demo", "reading",
                              sha256(JSONstringify(eq.items[n].payload)) >>

\* The input of the registerLocation call applied last for a location id.
LastApplied(id) ==
    LET ns == {n \in 1..Len(locCalls.applied) :
                  locCalls.issued[locCalls.applied[n]].id = id}
        last == CHOOSE n \in ns : \A m \in ns : m <= n
    IN locCalls.issued[locCalls.applied[last]]

AppliedIds ==
    {locCalls.issued[locCalls.applied[n]].id : n \in 1..Len(locCalls.applied)}

\* C18: after any registerLocation calls, applied in any order, locations
\* holds exactly one row for each id registered and none for another id, and
\* the row of an id has every attribute as the call applied last for that id
\* gave it (an attribute left out being NULL).
C18_LocationLastWriteWins ==
    /\ {r.id : r \in locations} = AppliedIds
    /\ \A id \in AppliedIds :
          LET loc == LastApplied(id) IN
          /\ Cardinality({r \in locations : r.id = id}) = 1
          /\ \A r \in locations : r.id = id =>
                /\ r.name = loc.name /\ r.type = loc.type
                /\ r.latitude = (IF loc.latitude = Undefined THEN Null ELSE loc.latitude)
                /\ r.longitude = (IF loc.longitude = Undefined THEN Null ELSE loc.longitude)
                /\ r.region = (IF loc.region = Undefined THEN Null ELSE loc.region)
                /\ r.district = (IF loc.district = Undefined THEN Null ELSE loc.district)
                /\ r.municipality =
                      (IF loc.municipality = Undefined THEN Null ELSE loc.municipality)
                /\ r.metadata = (IF loc.metadata = Undefined THEN Null
                                 ELSE JSONstringify(loc.metadata))

C18_Witness ==
    /\ Len(locCalls.applied) = 3
    /\ locCalls.applied[1] > locCalls.applied[2]
    /\ locCalls.issued[1].id = "lisboa" /\ locCalls.issued[2].id = "lisboa"
    /\ locCalls.issued[1] # locCalls.issued[2]
    /\ locCalls.issued[3].id = "equador"
    /\ Cardinality(locations) = 2
    /\ \E r \in locations : r.id = "lisboa" /\ r.name = locCalls.issued[1].name

\* The uploadDocument calls that got past r2.put.
BlobPut == {k \in 1..Len(uploads) : uploads[k].pc \in {"head", "insert", "returned"}}

\* C19: a documents row is written only by a call whose blob is already in
\* the bucket under the row's key; a call whose r2.put has not resolved, or
\* was rejected, has no row; and the calls that returned have pairwise
\* distinct document ids and storage keys and one row each, whatever their
\* content and name.
C19_BlobBeforeMetadata ==
    /\ [](\A d \in documents :
             /\ \E o \in r2 : o.key = d.r2Key
             /\ \E k \in BlobPut : uploads[k].docId = d.id /\ uploads[k].r2Key = d.r2Key)
    /\ [](\A k \in 1..Len(uploads) :
             (k \notin BlobPut) => \A d \in documents : d.id # uploads[k].docId)
    /\ [](LET done == {k \in 1..Len(uploads) : uploads[k].pc = "returned"} IN
          /\ \A k1, k2 \in done :
                k1 # k2 => /\ uploads[k1].docId # uploads[k2].docId
                           /\ uploads[k1].r2Key # uploads[k2].r2Key
          /\ Cardinality({d.id : d \in documents}) = Cardinality(done)
          /\ Cardinality({d.r2Key : d \in documents}) = Cardinality(done)
          /\ Cardinality(documents) = Cardinality(done))
    /\ [][\A d \in documents' : d \notin documents =>
             \E o \in r2 : o.key = d.r2Key /\ o \in r2']_vars

C19_Witness ==
    /\ Len(uploads) = 2
    /\ uploads[1].adapterId = uploads[2].adapterId
    /\ uploads[1].doc = uploads[2].doc
    /\ uploads[1].pc = "returned" /\ uploads[2].pc = "returned"
    /\ Cardinality(documents) = 2 /\ Cardinality(r2) = 2

\* The rows of a table under a dedup key.
RowsUnder(table, key) == {r \in table : DedupKey(r) = key}

\* C20: when a handler was killed at any point of its first run and then ran
\* again to its end with the same payloads, api_data holds, for every
\* (source, payload type, content hash), as many rows as after one run that
\* was never killed, and locations holds the same rows.
C20_RerunEqualsSingleRun ==
    rerun.pc = "done" =>
        /\ Keys(apiData) = Keys(rerun.onceApiData)
        /\ \A key \in Keys(apiData) :
              Cardinality(RowsUnder(apiData, key)) =
                 Cardinality(RowsUnder(rerun.onceApiData, key))
        /\ locations = rerun.onceLocations

C20_Witness ==
    /\ rerun.pc = "done"
    /\ Len(rerun.script) = 2
    /\ rerun.script[1].op = "storeBatchApiData"
    /\ Len(rerun.script[1].items) > BATCH_STMT_LIMIT
    /\ rerun.script[2].op = "registerLocation"
    /\ rerun.killedAt = << 1, BATCH_STMT_LIMIT + 1 >>
    /\ Cardinality(apiData) = 2
    /\ locations # {}

\* C21: no schedule of a registered adapter has a frequency outside
\* CronFrequency: a definition with such a frequency is turned down at
\* startup, so no schedule is left that every trigger skips.
C21_UnknownFrequencyRejected ==
    \A i \in 1..Len(reg.adapters) :
       \A n \in 1..Len(reg.adapters[i].schedules) :
          /\ reg.adapters[i].schedules[n] \in CronFrequency
          /\ reg.delivered = CronTriggers =>
                << reg.adapters[i].id, reg.adapters[i].schedules[n] >> \in reg.ran

\* The register calls that returned, in call order.
Registered == SelectSeq(reg.calls, LAMBDA c : c.result = "returned")

\* C22: register throws when the id is taken and leaves the registry as it
\* was, and otherwise appends the definition; so ids are unique, size is the
\* number of calls that returned, get(id) is the first definition registered
\* under the id, and no entry is ever removed or replaced.
C22_RegisterOnce ==
    /\ [](/\ \A i, k \in 1..Len(reg.adapters) :
                reg.adapters[i].id = reg.adapters[k].id => i = k
          /\ size(reg.adapters) = Len(Registered)
          /\ \A n \in 1..Len(reg.calls) :
                LET c == reg.calls[n]
                    earlier == {m \in 1..(n - 1) : reg.calls[m].adapter.id = c.adapter.id}
                IN /\ c.result = "threw" <=> earlier # {}
                   /\ earlier # {} =>
                         get(reg.adapters, c.adapter.id) =
                            reg.calls[CHOOSE m \in earlier : \A o \in earlier : m <= o].adapter
                   /\ earlier = {} => get(reg.adapters, c.adapter.id) = c.adapter)
    /\ [][ /\ Len(reg'.adapters) >= Len(reg.adapters)
           /\ \A i \in 1..Len(reg.adapters) : reg'.adapters[i] = reg.adapters[i]
           /\ (Len(reg'.calls) > Len(reg.calls)
               /\ reg'.calls[Len(reg'.calls)].result = "threw")
                 => reg'.adapters = reg.adapters ]_vars

C22_Witness ==
    /\ Len(reg.calls) = 3
    /\ reg.calls[1].adapter.id = "demo" /\ reg.calls[1].result = "returned"
    /\ reg.calls[2].adapter.id = "demo" /\ reg.calls[2].result = "threw"
    /\ reg.calls[2].adapter # reg.calls[1].adapter
    /\ reg.calls[3].adapter.id = "ipma" /\ reg.calls[3].result = "returned"
    /\ size(reg.adapters) = 2
    /\ get(reg.adapters, "demo") = reg.calls[1].adapter

\* C23: a sources row, once there, stays, and the only step that changes one
\* is runAdapter's update after a run that succeeded, which changes
\* last_fetched_at alone: seedSources, run again by every new isolate and
\* interleaved with jobs, and the storage calls of handlers leave status,
\* last_fetched_at and created_at as they were.
C23_OnlySchedulerTouchesSource ==
    [][ /\ DOMAIN sources \subseteq DOMAIN sources'
        /\ \A id \in DOMAIN sources :
              sources'[id] # sources[id] =>
                 /\ seedPos' = seedPos
                 /\ \E j \in JobIds :
                       /\ jobs[j].adapterId = id
                       /\ jobs[j].pc = "updateSource" /\ jobs'[j].pc = "done"
                       /\ jobs[j].outcome = "returned"
                 /\ sources'[id].status = sources[id].status
                 /\ sources'[id].createdAt = sources[id].createdAt ]_vars

\* Two seedSources calls overlap, one with every upsert applied and the other
\* past its first, on a row a job has stamped.
C23_Witness ==
    /\ Len(seedPos) = 2
    /\ seedPos[1].pos = Len(getAll) /\ seedPos[1].pc = "applied"
    /\ seedPos[2].pos = 2 /\ seedPos[2].pc = "upsert"
    /\ sources[getAll[1].id].lastFetchedAt # Never
    /\ sources[getAll[1].id].createdAt = 0
    /\ \E j \in JobIds : jobs[j].adapterId = getAll[1].id /\ Len(jobs[j].ops) > 0

\* C24: a handleScheduled call adds, for its trigger, one job for each
\* (adapter, schedule) pair shouldRun accepts and none for the others, each
\* with a context of its own and started up to its first await, and leaves
\* the jobs already running as they are; a job whose handler has been called
\* has an ingest_log row of its own, and that row is 'running' while the
\* handler runs.
C24_OneJobPerMatchingPair ==
    /\ [][ Len(jobs') > Len(jobs) =>
             /\ \A j \in 1..Len(jobs) : jobs'[j] = jobs[j]
             /\ \E tr \in DueTriggers :
                   /\ \A k \in (Len(jobs) + 1)..Len(jobs') :
                         /\ jobs'[k].cron = tr[1]
                         /\ jobs'[k].scheduledTime = tr[2]
                         /\ jobs'[k].pc = "logStart"
                   /\ \A a \in 1..Len(getAll), n \in 1..2 :
                      n <= Len(getAll[a].schedules) =>
                         Cardinality({k \in (Len(jobs) + 1)..Len(jobs') :
                                         /\ jobs'[k].adapterId = getAll[a].id
                                         /\ jobs'[k].schedule = n})
                            = (IF shouldRun(getAll[a].schedules[n], tr[1],
                                            getUTCMinutes(tr[2]), getUTCHours(tr[2]),
                                            getUTCDay(tr[2]))
                               THEN 1 ELSE 0)
             /\ \A k \in (Len(jobs) + 1)..Len(jobs') :
                   /\ jobs'[k].logId = 0
                   /\ \A o \in 1..Len(jobs') : o # k => jobs'[o].ctx # jobs'[k].ctx ]_vars
    /\ [](\A j \in JobIds :
             jobs[j].pc # "logStart" =>
                /\ HasRow(j)
                /\ RowOf(j).adapterId = jobs[j].adapterId
                /\ \A k \in JobIds \ {j} : jobs[k].logId # jobs[j].logId
                /\ jobs[j].pc \in {"handler", "store"} =>
                      RowOf(j).status = "running")

C24_Witness ==
    /\ Len(jobs) = 2
    /\ jobs[1].invocation = jobs[2].invocation
    /\ jobs[1].adapterId = jobs[2].adapterId
    /\ jobs[1].schedule # jobs[2].schedule
    /\ jobs[1].pc = "handler" /\ jobs[2].pc = "handler"
    /\ jobs[1].logId = 2 /\ jobs[2].logId = 1
    /\ Len(ingestLog) = 2

----------------------------------------------------------------------------
\* The (source id, payload type, payload hash) of the row an item of the list
\* is stored as.
TripleOf(item) == << "demo", "reading", sha256(JSONstringify(item.payload)) >>

Triple(r) == << r.apiSource, r.payloadType, r.contentHash >>

\* C25: deduplication looks only at (source id, payload type, payload hash).
\* A storeApiData call, or a chunk of storeBatchApiData, leaves every row of
\* the table as it was, locationId, timestamp and tags included; an item whose
\* triple the table holds stores nothing, whatever its locationId, timestamp
\* and tags are, and an item whose triple it does not hold stores one row
\* carrying the options of the first such item.
C25_DedupIgnoresOptions ==
    [][ /\ eq.seq \subseteq eq'.seq
        /\ eq.batch \subseteq eq'.batch
        /\ eq'.seq # eq.seq \/ eq'.pos = eq.pos + 1 =>
              LET item == eq.items[eq.pos]
              IN IF TripleOf(item) \in {Triple(r) : r \in eq.seq}
                 THEN eq'.seq = eq.seq
                 ELSE \E r \in eq'.seq :
                         /\ eq'.seq = eq.seq \cup {r}
                         /\ r \notin eq.seq
                         /\ Triple(r) = TripleOf(item)
                         /\ r.locationId = item.locationId
                         /\ r.timestamp = TimestampOr(item.timestamp,
                                             eq.t0 + (eq.pos - 1) * eq.tick)
                         /\ r.tags = (IF item.tags = Undefined THEN Null
                                      ELSE JSONstringify(item.tags))
        /\ eq'.batch # eq.batch =>
              \A r \in eq'.batch \ eq.batch :
                 /\ Triple(r) \notin {Triple(o) : o \in eq.batch}
                 /\ \E i \in 1..Len(eq.items) :
                       /\ Triple(r) = TripleOf(eq.items[i])
                       /\ \A k \in 1..(i - 1) : TripleOf(eq.items[k]) # Triple(r)
                       /\ r.locationId = eq.items[i].locationId
                       /\ r.tags = (IF eq.items[i].tags = Undefined THEN Null
                                    ELSE JSONstringify(eq.items[i].tags)) ]_vars

\* Two items of equal payload text whose locationId, timestamp and tags all
\* differ have been stored into an empty table: one row, with the first
\* item's three values.
C25_Witness ==
    /\ eq.pc = "done"
    /\ Len(eq.items) = 2
    /\ TripleOf(eq.items[1]) = TripleOf(eq.items[2])
    /\ eq.items[1].payload # eq.items[2].payload
    /\ eq.items[1].locationId = "lisboa" /\ eq.items[2].locationId = NoLocation
    /\ eq.items[1].timestamp = 7 /\ eq.items[2].timestamp = Never
    /\ eq.items[1].tags = "[uv,air-quality]" /\ eq.items[2].tags = Undefined
    /\ Cardinality(eq.seq) = 1 /\ Cardinality(eq.batch) = 1
    /\ \A r \in eq.seq \cup eq.batch :
          /\ r.locationId = "lisboa" /\ r.timestamp = 7
          /\ r.tags = JSONstringify("[uv,air-quality]")

----------------------------------------------------------------------------
\* C26: in storeBatchApiData the retry wraps the whole chunk loop.  The
\* attempt after a rejected chunk submits the first chunk again; when the call
\* returns, api_data holds the rows a call without failures leaves, the ids
\* returned are one per item in the order of the items, and the call has made
\* at most MAX_RETRIES db.batch calls per chunk of the list.
C26_RetryWrapsChunkLoop ==
    /\ [][ call.pc = "wait" /\ call'.pc = "attempt" => call'.pos = 1 ]_vars
    /\ [](/\ call.calls <= MAX_RETRIES * ChunksOf(Len(call.items))
          /\ call.calls = Len(call.submitted)
          /\ call.attempt < MAX_RETRIES
          /\ call.pc = "returned" =>
                /\ call.table = AllChunks(call.start, RetryRows, 1)
                /\ Len(call.out) = Len(call.items)
                /\ \A i \in 1..Len(call.items) :
                      /\ call.out[i] = RetryRows[i].id
                      /\ call.out[i][5][3] = i)

\* A list of two chunks whose second chunk was rejected twice has returned
\* on the third attempt, after six db.batch calls: chunks one and two, three
\* times over.
C26_Witness ==
    /\ call.op = "retryBatch"
    /\ call.pc = "returned"
    /\ call.attempt = MAX_RETRIES - 1
    /\ call.submitted = << 1, BATCH_STMT_LIMIT + 1, 1, BATCH_STMT_LIMIT + 1,
                           1, BATCH_STMT_LIMIT + 1 >>
    /\ Cardinality(call.table) = 2
    /\ call.start = {}

----------------------------------------------------------------------------
\* C27: registerLocation replaces the whole row.  After the statement of a
\* call has run, every optional attribute the call left out is NULL in the
\* row of its id, whatever the row held before and whoever registered it,
\* and the rows of the other ids are as they were.
C27_ReRegisterNullsOmitted ==
    [][ Len(locCalls'.applied) > Len(locCalls.applied) =>
           LET loc == locCalls.issued[locCalls'.applied[Len(locCalls'.applied)]]
           IN /\ \A r \in locations' :
                    r.id = loc.id =>
                       \A a \in OptionalAttributes :
                          loc[a] = Undefined => r[a] = Null
              /\ {r \in locations' : r.id # loc.id}
                    = {r \in locations : r.id # loc.id} ]_vars

\* "lisboa" was registered with every attribute, then again with none: its
\* row has lost all six.
C27_Witness ==
    /\ Len(locCalls.applied) = 2
    /\ LET first == locCalls.issued[locCalls.applied[1]]
           second == locCalls.issued[locCalls.applied[2]]
       IN /\ first.id = "lisboa" /\ second.id = "lisboa"
          /\ \A a \in OptionalAttributes :
                first[a] # Undefined /\ second[a] = Undefined
    /\ \E r \in locations :
          /\ r.id = "lisboa" /\ r.name = "Lisbon"
          /\ \A a \in OptionalAttributes : r[a] = Null

----------------------------------------------------------------------------
\* C28: location enrichment is stable across runs of sincronizarLocais.  A
\* location whose stored metadata has Nominatim data when a run reads the
\* table is not geocoded by that run, and when the run has returned its
\* stored metadata still has the Nominatim data.
C28_EnrichmentStable ==
    /\ sync.geocoded \cap sync.enrichedIds = {}
    /\ sync.pc = "select" =>
          \A id \in sync.enrichedIds :
             \E r \in locations : r.id = id /\ HasNominatim(r.metadata)

----------------------------------------------------------------------------
\* C29: a request calls seedSources exactly when no seedSources call of the
\* process had returned before it reached the middleware; a request whose
\* seedSources call failed still goes on to the downstream handler, and no
\* request ends without it; and once a seedSources call has returned, every
\* registered source has its row in sources, with the values of a fresh row:
\* 'active', never fetched, and created at the time the call that wrote it
\* read when it built the statement, which is not after the present.
C29_SeedUntilSuccess ==
    /\ \A r \in 1..Len(web.reqs) :
          LET req == web.reqs[r] IN
          /\ req.called <=> (req.before = 0)
          /\ req.result # "none" => req.called
          /\ req.result = "failed" => req.pc \in {"next", "done"}
          /\ req.pc = "done" <=> req.handled
          /\ req.pc \in {"seedSources", "next", "done"}
    /\ seeded <=> (web.successes > 0)
    /\ web.successes > 0 =>
          \A a \in 1..Len(getAll) :
             /\ getAll[a].id \in DOMAIN sources
             /\ sources[getAll[a].id].status = "active"
    /\ \A id \in DOMAIN sources :
          /\ id \in AdapterIds
          /\ sources[id] = SourceRow(sources[id].createdAt)
          /\ sources[id].createdAt \in 1..now

\* Three requests: the first one's seed failed and its handler ran, the
\* second one's seed succeeded, the third came afterwards and did not seed;
\* a delivery came between the building of an upsert and its application.
C29_Witness ==
    /\ Len(web.reqs) = 3
    /\ \E id \in DOMAIN sources : sources[id].createdAt < now
    /\ \E id \in DOMAIN sources : sources[id].createdAt > 1
    /\ web.reqs[1].result = "failed" /\ web.reqs[1].handled
    /\ web.reqs[2].called /\ web.reqs[2].result = "ok"
    /\ ~web.reqs[3].called /\ web.reqs[3].handled
    /\ web.successes = 1
    /\ DOMAIN sources = AdapterIds

----------------------------------------------------------------------------
\* C30: a request whose key (prefix and full URL) is in the cache when
\* kvCache reads it is answered with the cached body and its handler never
\* runs; a request whose key is not there runs the handler; and the cache is
\* written only with the body of a response that came from a handler on a
\* miss, had a 2xx status and a JSON content type, under that request's key.
C30_CacheHitSkipsHandler ==
    /\ [](\A r \in 1..Len(kv.reqs) :
             LET req == kv.reqs[r] IN
             req.pc # "get" =>
                /\ req.cached # Null =>
                      /\ ~req.handler /\ req.pc = "done"
                      /\ req.body = req.cached
                /\ req.cached = Null =>
                      (req.pc \in {"put", "done"} => req.handler)
                /\ req.put =>
                      /\ req.handler
                      /\ req.status >= 200 /\ req.status <= 299
                      /\ req.body \in {"{v:1}", "{v:2}"})
    /\ [][ /\ \A r \in 1..Len(kv.reqs) :
                kv.reqs[r].pc = "get" /\ kv'.reqs[r].pc # "get" =>
                   kv'.reqs[r].cached = kv.store[kv.reqs[r].key]
           /\ \A k \in CacheKeys :
                (kv'.store[k] # kv.store[k] /\ kv'.store[k] # Null) =>
                   \E r \in 1..Len(kv.reqs) :
                      /\ kv.reqs[r].key = k
                      /\ kv.reqs[r].handler /\ kv.reqs[r].cached = Null
                      /\ kv.reqs[r].status >= 200 /\ kv.reqs[r].status <= 299
                      /\ kv.reqs[r].body \in {"{v:1}", "{v:2}"}
                      /\ kv'.store[k] = kv.reqs[r].body ]_vars

\* The first request missed, its handler answered 200 with JSON and the
\* body was cached; the second request of the same key was answered from the
\* cache without its handler, while the other keys stayed empty.
C30_Witness ==
    /\ Len(kv.reqs) = 2
    /\ kv.reqs[1].key = kv.reqs[2].key
    /\ kv.reqs[1].handler /\ kv.reqs[1].put /\ kv.reqs[1].pc = "done"
    /\ kv.reqs[2].pc = "done" /\ ~kv.reqs[2].handler
    /\ kv.reqs[2].body = kv.reqs[1].body
    /\ \A k \in CacheKeys : k # kv.reqs[1].key => kv.store[k] = Null
====
